---------------------------- MODULE Spec2Model ----------------------------
(***************************************************************************)
(* A model of the WebSocket client of cex_connector (src/websocket.rs):    *)
(* the connection object (closed flag, last_ping, config), its send and    *)
(* close operations, and read_message / read_frame decoding the bytes the  *)
(* peer put on the transport.  Bytes are integers 0..255; the transport's  *)
(* inbound side is the byte sequence inbuf, and what an operation writes   *)
(* to its outbound side is recorded in events.                             *)
(***************************************************************************)
EXTENDS Integers, Sequences, FiniteSets, TLC

VARIABLES
    config,      \* WebSocketConfig: max_frame_size, ping_interval
    closed,      \* WebSocketClient.closed
    last_ping,   \* WebSocketClient.last_ping (an Instant, in ticks)
    now,         \* the monotonic clock Instant::now() reads
    inbuf,       \* bytes that arrived and that the client has not read yet
    withheld,    \* the tail of the peer's last frame that has not arrived yet
    result,      \* what the operation just called returned
    events,      \* transport accesses of the operation just called, in order
    pre,         \* what the operation just called found when it was called
    closed_by,   \* which side's close frame set closed: "local", "peer" or "none"
    close_frames,\* how many close frames write_all has taken whole, and how many
                 \* of them were flushed, each counted up to MaxCloseFrames
    session,     \* "new" before connect, "open" with a client, "failed" without one
    url,         \* the URL given to parse_websocket_url, and the parts it was written from
    parsed,      \* what parse_websocket_url returned for it
    outgoing,    \* the opcode, payload and mask key send_frame is given
    stats,       \* the LatencyStats: count, total_latency_ns, min, max, last_10
    samples,     \* every sample add_measurement was given and returned from, in order
    answers,     \* what the four queries returned when they were last asked
    build,       \* "debug" (overflow checks on) or "release" (wrapping arithmetic)
    panicked,    \* an arithmetic overflow has aborted the thread
    cell,        \* HIGH_RES_TIMER: the state of the OnceLock and the record it holds
    threads,     \* each thread's place in get_high_res_time_ns and what it read
    calibrations,\* how often HighResTimer::new has been entered
    clock,       \* the system clock
    app          \* main: where it is, how often it connected, what its loop last met

ws_vars ==
    <<config, closed, last_ping, now, inbuf, withheld, result, events, pre, closed_by,
      close_frames, session>>
url_vars == <<url, parsed>>

enc_vars == <<outgoing>>
stats_vars == <<stats, samples, answers, build, panicked>>
timer_vars == <<cell, threads, calibrations, clock>>
main_vars == <<app>>
non_ws_vars == <<url_vars, enc_vars, stats_vars, timer_vars, main_vars>>
vars == <<ws_vars, non_ws_vars>>

-----------------------------------------------------------------------------
(* Bounds of the model.                                                    *)

MaxTime == 3          \* the clock stops ticking here
MaxSamples == 11      \* add_measurement is called at most this often
MaxHuge == 1          \* and at most this often with u64::MAX
MaxClock == 2         \* the clocks of the timer stop ticking here
MaxCalls == 2         \* each thread reads the high-resolution clock at most this often
SmallFrameSize == 3   \* a configured max_frame_size below the control-frame limit
LargeFrameSize == 130 \* a configured max_frame_size above the control-frame limit
PingInterval == 1     \* the configured keepalive interval, in ticks
MaxCloseFrames == 2   \* close frames handed to the transport are counted up to here
MaxSteps == 2         \* the application loop is followed for this many messages

-----------------------------------------------------------------------------
(* Bytes and bit operations on unsigned integers.                          *)

RECURSIVE BitAnd(_, _)
BitAnd(a, b) ==
    IF a = 0 \/ b = 0 THEN 0
    ELSE (IF a % 2 = 1 /\ b % 2 = 1 THEN 1 ELSE 0) + 2 * BitAnd(a \div 2, b \div 2)

RECURSIVE BitXor(_, _)
BitXor(a, b) ==
    IF a = 0 THEN b
    ELSE IF b = 0 THEN a
    ELSE (IF a % 2 = b % 2 THEN 0 ELSE 1) + 2 * BitXor(a \div 2, b \div 2)

BitOr(a, b) == a + b - BitAnd(a, b)

\* uN::from_be_bytes
RECURSIVE from_be_bytes(_)
from_be_bytes(bs) ==
    IF bs = <<>> THEN 0
    ELSE bs[Len(bs)] + 256 * from_be_bytes(SubSeq(bs, 1, Len(bs) - 1))

\* uN::to_be_bytes, n bytes wide
RECURSIVE to_be_bytes(_, _)
to_be_bytes(v, n) ==
    IF n = 0 THEN <<>>
    ELSE Append(to_be_bytes(v \div 256, n - 1), v % 256)

\* A u64 is kept as its 8 big-endian bytes: a 64-bit value does not fit the
\* integers of the model checker.  U64(v) is the u64 of a small integer.
U64(v) == to_be_bytes(v, 8)

\* a > b for two u64
RECURSIVE U64Gt(_, _)
U64Gt(a, b) ==
    IF a = <<>> THEN FALSE
    ELSE IF a[1] # b[1] THEN a[1] > b[1]
    ELSE U64Gt(SubSeq(a, 2, Len(a)), SubSeq(b, 2, Len(b)))

\* u64::MAX
U64_MAX == <<255, 255, 255, 255, 255, 255, 255, 255>>

\* the 16-bit limb of a u64 that ends at byte i
Limb(a, i) == 256 * a[i - 1] + a[i]

\* a + b for two u64, limb by limb with the carry: the wrapped sum and
\* whether the addition overflowed
U64Add(a, b) ==
    LET d4 == Limb(a, 8) + Limb(b, 8)
        d3 == Limb(a, 6) + Limb(b, 6) + d4 \div 65536
        d2 == Limb(a, 4) + Limb(b, 4) + d3 \div 65536
        d1 == Limb(a, 2) + Limb(b, 2) + d2 \div 65536
    IN  [sum |-> << (d1 % 65536) \div 256, d1 % 256, (d2 % 65536) \div 256, d2 % 256,
                   (d3 % 65536) \div 256, d3 % 256, (d4 % 65536) \div 256, d4 % 256 >>,
         overflow |-> d1 >= 65536]

\* a * m for a u64 and a multiplier of at most a million, byte by byte with
\* the carry: the wrapped product and whether the multiplication overflowed
U64Mul(a, m) ==
    LET t8 == a[8] * m
        t7 == a[7] * m + t8 \div 256
        t6 == a[6] * m + t7 \div 256
        t5 == a[5] * m + t6 \div 256
        t4 == a[4] * m + t5 \div 256
        t3 == a[3] * m + t4 \div 256
        t2 == a[2] * m + t3 \div 256
        t1 == a[1] * m + t2 \div 256
    IN  [product |-> << t1 % 256, t2 % 256, t3 % 256, t4 % 256,
                       t5 % 256, t6 % 256, t7 % 256, t8 % 256 >>,
         overflow |-> t1 >= 256]

\* u64::saturating_sub: a - b limb by limb with the borrow, 0 when b > a
saturating_sub(a, b) ==
    LET e4 == 65536 + Limb(a, 8) - Limb(b, 8)
        e3 == 65535 + Limb(a, 6) - Limb(b, 6) + e4 \div 65536
        e2 == 65535 + Limb(a, 4) - Limb(b, 4) + e3 \div 65536
        e1 == 65535 + Limb(a, 2) - Limb(b, 2) + e2 \div 65536
    IN  IF U64Gt(b, a) THEN << 0, 0, 0, 0, 0, 0, 0, 0 >>
        ELSE << (e1 % 65536) \div 256, e1 % 256, (e2 % 65536) \div 256, e2 % 256,
                (e3 % 65536) \div 256, e3 % 256, (e4 % 65536) \div 256, e4 % 256 >>

\* u64::min, u64::max
U64Min(a, b) == IF U64Gt(a, b) THEN b ELSE a
U64Maxi(a, b) == IF U64Gt(a, b) THEN a ELSE b

Drop(s, n) == SubSeq(s, n + 1, Len(s))
Take(s, n) == SubSeq(s, 1, n)


Fill(n) == [i \in 1..n |-> 65]

-----------------------------------------------------------------------------
(* UTF-8, as the standard library decodes it: one step of the decoder at   *)
(* the head of bs gives whether a well-formed scalar starts there and how  *)
(* many bytes the step covers (for an ill-formed one: the lead byte and    *)
(* the continuation bytes accepted before the decoder gave up).            *)

utf8_char_width(b) ==
    IF b < 128 THEN 1
    ELSE IF b >= 194 /\ b <= 223 THEN 2
    ELSE IF b >= 224 /\ b <= 239 THEN 3
    ELSE IF b >= 240 /\ b <= 244 THEN 4
    ELSE 0

safe_get(bs, i) == IF i <= Len(bs) THEN bs[i] ELSE 0

IsCont(b) == b >= 128 /\ b <= 191

Second3Ok(b1, b2) ==
    \/ b1 = 224 /\ b2 >= 160 /\ b2 <= 191
    \/ b1 >= 225 /\ b1 <= 236 /\ IsCont(b2)
    \/ b1 = 237 /\ b2 >= 128 /\ b2 <= 159
    \/ b1 >= 238 /\ b1 <= 239 /\ IsCont(b2)

Second4Ok(b1, b2) ==
    \/ b1 = 240 /\ b2 >= 144 /\ b2 <= 191
    \/ b1 >= 241 /\ b1 <= 243 /\ IsCont(b2)
    \/ b1 = 244 /\ b2 >= 128 /\ b2 <= 143

Utf8Step(bs) ==
    LET b1 == bs[1]
        w  == utf8_char_width(b1)
        b2 == safe_get(bs, 2)
        b3 == safe_get(bs, 3)
        b4 == safe_get(bs, 4)
    IN  CASE w = 1 -> [ok |-> TRUE, n |-> 1]
          [] w = 2 -> IF IsCont(b2) THEN [ok |-> TRUE, n |-> 2]
                      ELSE [ok |-> FALSE, n |-> 1]
          [] w = 3 -> IF ~Second3Ok(b1, b2) THEN [ok |-> FALSE, n |-> 1]
                      ELSE IF ~IsCont(b3) THEN [ok |-> FALSE, n |-> 2]
                      ELSE [ok |-> TRUE, n |-> 3]
          [] w = 4 -> IF ~Second4Ok(b1, b2) THEN [ok |-> FALSE, n |-> 1]
                      ELSE IF ~IsCont(b3) THEN [ok |-> FALSE, n |-> 2]
                      ELSE IF ~IsCont(b4) THEN [ok |-> FALSE, n |-> 3]
                      ELSE [ok |-> TRUE, n |-> 4]
          [] OTHER -> [ok |-> FALSE, n |-> 1]

\* the length of the run of ASCII bytes bs starts with (the decoder's
\* fast path: ASCII bytes are accepted as they are)
AsciiRun(bs) ==
    IF \A i \in 1..Len(bs) : bs[i] < 128 THEN Len(bs)
    ELSE (CHOOSE i \in 1..Len(bs) : bs[i] >= 128 /\ \A j \in 1..(i - 1) : bs[j] < 128) - 1

\* String::from_utf8(bytes).is_ok()
RECURSIVE from_utf8_ok(_)
from_utf8_ok(bs) ==
    LET t == Drop(bs, AsciiRun(bs))
    IN  IF t = <<>> THEN TRUE
        ELSE LET st == Utf8Step(t)
             IN  st.ok /\ from_utf8_ok(Drop(t, st.n))

\* String::from_utf8_lossy(bytes), as the bytes of the resulting String:
\* every ill-formed run becomes U+FFFD (EF BF BD)
RECURSIVE from_utf8_lossy(_)
from_utf8_lossy(bs) ==
    LET a == AsciiRun(bs)
        t == Drop(bs, a)
    IN  IF t = <<>> THEN bs
        ELSE LET st == Utf8Step(t)
             IN  Take(bs, a)
                     \o (IF st.ok THEN Take(t, st.n) ELSE <<239, 191, 189>>)
                     \o from_utf8_lossy(Drop(t, st.n))

-----------------------------------------------------------------------------
(* Constants of src/websocket.rs.                                          *)

OPCODE_CONTINUATION == 0
OPCODE_TEXT == 1
OPCODE_BINARY == 2
OPCODE_CLOSE == 8
OPCODE_PING == 9
OPCODE_PONG == 10
CLOSE_NORMAL == 1000
MaxControlPayload == 125
MaxCloseReason == 123

is_control_frame(opcode) == opcode >= 8

\* close-code validation taking 1000..1011 as one range
is_valid_close_code_one_range(code) ==
    \/ code >= 1000 /\ code <= 1011
    \/ code >= 3000 /\ code <= 4999

is_valid_close_code(code) ==
    \/ code >= 1000 /\ code <= 1003
    \/ code >= 1007 /\ code <= 1011
    \/ code >= 3000 /\ code <= 4999

-----------------------------------------------------------------------------
(* Results, messages and events.                                           *)

NoCode == -1

NoMsg == [kind |-> "None", payload |-> <<>>, code |-> NoCode, reason |-> <<>>]

Msg(kind, payload) ==
    [kind |-> kind, payload |-> payload, code |-> NoCode, reason |-> <<>>]

CloseMsg(code, reason) ==
    [kind |-> "Close", payload |-> <<>>, code |-> code, reason |-> reason]

Ok(m) == [ok |-> TRUE, err |-> "", msg |-> m]
Err(e) == [ok |-> FALSE, err |-> e, msg |-> NoMsg]

\* impl From<std::io::Error> for WebSocketError: an I/O error of any kind,
\* the expiry of the read or write timeout included, becomes the Io error
from_io_error(kind) == "Io"

NoResult == [op |-> "none", ok |-> TRUE, err |-> "", msg |-> NoMsg]

Called(op, r) == [op |-> op, ok |-> r.ok, err |-> r.err, msg |-> r.msg]

\* a read_exact of n bytes that got `got` of them; a buffer of n bytes
\* allocated; a frame given to write_all and flush, and how that went
ReadEv(n, got) == [ev |-> "read", n |-> n, got |-> Len(got), bytes |-> <<>>, how |-> ""]
AllocEv(n) == [ev |-> "alloc", n |-> n, got |-> 0, bytes |-> <<>>, how |-> ""]
WriteEv(frame, how) ==
    [ev |-> "write", n |-> Len(frame), got |-> 0, bytes |-> frame, how |-> how]

-----------------------------------------------------------------------------
(* parse_websocket_url.  A string is the sequence of its bytes (ASCII).    *)

\* str::find: the index of the first occurrence of pat in str, 0 for None
Find(str, pat) ==
    LET at == { i \in 1..(Len(str) - Len(pat) + 1) :
                  SubSeq(str, i, i + Len(pat) - 1) = pat }
    IN  IF at = {} THEN 0 ELSE CHOOSE i \in at : \A j \in at : i <= j

\* str::rfind: the index of the last occurrence of the byte c, 0 for None
RFind(str, c) ==
    LET at == { i \in 1..Len(str) : str[i] = c }
    IN  IF at = {} THEN 0 ELSE CHOOSE i \in at : \A j \in at : i >= j

IsDigit(c) == c >= 48 /\ c <= 57

U16Max == 65535

\* the digits of a u16 read left to right: -1 on a byte that is no digit
\* and on a value above u16::MAX
RECURSIVE parse_digits(_, _)
parse_digits(digits, acc) ==
    IF digits = <<>> THEN acc
    ELSE IF ~IsDigit(digits[1]) THEN -1
    ELSE IF acc * 10 + (digits[1] - 48) > U16Max THEN -1
    ELSE parse_digits(Tail(digits), acc * 10 + (digits[1] - 48))

\* str::parse::<u16>: one optional '+', then at least one digit; -1 for Err
parse_u16(str) ==
    LET digits == IF str # <<>> /\ str[1] = 43 THEN Tail(str) ELSE str
    IN  IF digits = <<>> THEN -1 ELSE parse_digits(digits, 0)

SchemeSep == <<58, 47, 47>>   \* "://"
WS == <<119, 115>>                \* "ws"
WSS == <<119, 115, 115>>          \* "wss"
Slash == 47                         \* '/'
Colon == 58                         \* ':'
DefaultWsPort == 80
DefaultWssPort == 443

NoUrl == [ok |-> FALSE, err |-> "", scheme |-> <<>>, host |-> <<>>, port |-> 0, path |-> <<>>]

UrlErr(e) == [NoUrl EXCEPT !.err = e]

UrlOk(scheme, host, port, path) ==
    [ok |-> TRUE, err |-> "", scheme |-> scheme, host |-> host, port |-> port, path |-> path]

\* parse_websocket_url reading the port from the first ':' of host_port
parse_websocket_url_first_colon(u) ==
    LET scheme_end == Find(u, SchemeSep)
    IN  IF scheme_end = 0 THEN UrlErr("ProtocolError")
        ELSE LET scheme == Take(u, scheme_end - 1)
                 rest == Drop(u, scheme_end + 2)
                 path_start == Find(rest, << Slash >>)
                 host_port == IF path_start # 0 THEN Take(rest, path_start - 1) ELSE rest
                 path == IF path_start # 0 THEN Drop(rest, path_start - 1) ELSE << Slash >>
                 port_start == Find(host_port, << Colon >>)
             IN  IF port_start # 0
                 THEN LET port == parse_u16(Drop(host_port, port_start))
                      IN  IF port < 0 THEN UrlErr("ProtocolError")
                          ELSE UrlOk(scheme, Take(host_port, port_start - 1), port, path)
                 ELSE IF scheme = WS THEN UrlOk(scheme, host_port, DefaultWsPort, path)
                 ELSE IF scheme = WSS THEN UrlOk(scheme, host_port, DefaultWssPort, path)
                 ELSE UrlErr("ProtocolError")

parse_websocket_url(u) ==
    LET scheme_end == Find(u, SchemeSep)
    IN  IF scheme_end = 0 THEN UrlErr("ProtocolError")
        ELSE LET scheme == Take(u, scheme_end - 1)
                 rest == Drop(u, scheme_end + 2)
                 path_start == Find(rest, << Slash >>)
                 host_port == IF path_start # 0 THEN Take(rest, path_start - 1) ELSE rest
                 path == IF path_start # 0 THEN Drop(rest, path_start - 1) ELSE << Slash >>
                 port_start == RFind(host_port, Colon)
             IN  IF port_start # 0
                 THEN LET port == parse_u16(Drop(host_port, port_start))
                      IN  IF port < 0 THEN UrlErr("ProtocolError")
                          ELSE UrlOk(scheme, Take(host_port, port_start - 1), port, path)
                 ELSE IF scheme = WS THEN UrlOk(scheme, host_port, DefaultWsPort, path)
                 ELSE IF scheme = WSS THEN UrlOk(scheme, host_port, DefaultWssPort, path)
                 ELSE UrlErr("ProtocolError")

\* The URLs parsed: written from a scheme, a host, a port text (or none)
\* and a path (or none), or a text without "://".
UrlSchemes == { WS, WSS, <<104, 116, 116, 112>>, <<87, 83>>, <<>> }   \* ws wss http WS ""

UrlHosts == { <<104>>, <<97, 58, 98>>, <<>> }   \* "h", "a:b" (only with a port), ""

\* [given, text, value]: value is the u16 the text stands for, -1 for none
PortPart(given, text, value) == [given |-> given, text |-> text, value |-> value]

UrlPorts ==
    { PortPart(FALSE, <<>>, -1),
      PortPart(TRUE, <<56, 48>>, 80),                    \* "80"
      PortPart(TRUE, <<48, 56, 48>>, 80),                \* "080"
      PortPart(TRUE, <<43, 55>>, 7),                     \* "+7"
      PortPart(TRUE, <<54, 53, 53, 51, 53>>, 65535),     \* "65535"
      PortPart(TRUE, <<54, 53, 53, 51, 54>>, -1),        \* "65536"
      PortPart(TRUE, <<45, 49>>, -1),                    \* "-1"
      PortPart(TRUE, <<120>>, -1),                       \* "x"
      PortPart(TRUE, <<>>, -1) }                        \* ""

\* [given, text]
PathPart(given, text) == [given |-> given, text |-> text]

UrlPaths ==
    { PathPart(FALSE, <<>>),
      PathPart(TRUE, <<47>>),                           \* "/"
      PathPart(TRUE, <<47, 112>>),                      \* "/p"
      PathPart(TRUE, <<47, 97, 58, 49, 47, 98>>) }   \* "/a:1/b"

UrlText(scheme, host, port, path) ==
    scheme \o SchemeSep \o host
        \o (IF port.given THEN << Colon >> \o port.text ELSE <<>>)
        \o path.text

BuiltUrls ==
    { [text |-> UrlText(sc, h, po, pa), built |-> TRUE,
       scheme |-> sc, host |-> h, port |-> po, path |-> pa] :
        sc \in UrlSchemes,
        h \in UrlHosts,
        po \in UrlPorts,
        pa \in UrlPaths }

\* texts without "://"
BareTexts ==
    { <<104, 58, 56, 48>>,                       \* "h:80"
      <<119, 115, 58, 47, 104>>,      \* "ws:/h"
      <<119, 115, 47, 47, 104>>,     \* "ws//h"
      <<>> }

BareUrls ==
    { [text |-> t, built |-> FALSE, scheme |-> <<>>, host |-> <<>>,
       port |-> PortPart(FALSE, <<>>, -1), path |-> PathPart(FALSE, <<>>)] :
        t \in BareTexts }

\* a host with a ':' is written only with a port after it
Urls == { u \in BuiltUrls : Find(u.host, << Colon >>) # 0 => u.port.given } \cup BareUrls

NotParsed == [NoUrl EXCEPT !.err = "not called"]

-----------------------------------------------------------------------------
(* The client object as a value: the fields an operation may change.       *)
(* An operation returns [s, r, ev]: the new fields, its return value and   *)
(* the transport accesses it made.                                         *)

Self == [closed |-> closed, last_ping |-> last_ping]

Ret(s, r, ev) == [s |-> s, r |-> r, ev |-> ev]

\* generate_mask_key: four bytes hashed from the time and the thread id
MaskKeys == { <<0, 0, 0, 0>>, <<18, 52, 86, 120>> }

\* what write_all and flush can do with a frame: both succeed; write_all
\* fails (an unspecified prefix of the frame may have left, no whole frame);
\* write_all succeeds and flush fails (the whole frame was handed over)
WriteOutcomes == { "ok", "write_err", "flush_err" }

\* payload XORed byte for byte with the mask key cycling over its 4 bytes
MaskPayload(payload, mask_key) ==
    [i \in 1..Len(payload) |-> BitXor(payload[i], mask_key[((i - 1) % 4) + 1])]

\* the bytes send_frame builds: header, length, mask key, masked payload
\* send_frame's encoding with the 7-bit form used up to 126
EncodeFrame_le_126(opcode, payload, mask_key) ==
    LET payload_len == Len(payload)
        lenBytes ==
            IF payload_len <= 126 THEN << BitOr(128, payload_len) >>
            ELSE IF payload_len < 65536
                 THEN << BitOr(128, 126) >> \o to_be_bytes(payload_len % 65536, 2)
            ELSE << BitOr(128, 127) >> \o to_be_bytes(payload_len, 8)
    IN  << BitOr(128, opcode) >> \o lenBytes \o mask_key
            \o MaskPayload(payload, mask_key)

EncodeFrame(opcode, payload, mask_key) ==
    LET payload_len == Len(payload)
        lenBytes ==
            IF payload_len < 126 THEN << BitOr(128, payload_len) >>
            ELSE IF payload_len < 65536
                 THEN << BitOr(128, 126) >> \o to_be_bytes(payload_len % 65536, 2)
            ELSE << BitOr(128, 127) >> \o to_be_bytes(payload_len, 8)
    IN  << BitOr(128, opcode) >> \o lenBytes \o mask_key
            \o MaskPayload(payload, mask_key)

\* send_frame that does not look at what flush returned
send_frame_flush_unchecked(s, opcode, payload, mask_key, outcome) ==
    IF Len(payload) > config.max_frame_size
    THEN Ret(s, Err("FrameTooLarge"), <<>>)
    ELSE LET frame == EncodeFrame(opcode, payload, mask_key)
         IN  IF outcome \in {"ok", "flush_err"}
             THEN Ret(s, Ok(NoMsg), << WriteEv(frame, outcome) >>)
             ELSE Ret(s, Err(from_io_error(outcome)), << WriteEv(frame, outcome) >>)

send_frame(s, opcode, payload, mask_key, outcome) ==
    IF Len(payload) > config.max_frame_size
    THEN Ret(s, Err("FrameTooLarge"), <<>>)
    ELSE LET frame == EncodeFrame(opcode, payload, mask_key)
         IN  IF outcome = "ok"
             THEN Ret(s, Ok(NoMsg), << WriteEv(frame, outcome) >>)
             ELSE Ret(s, Err(from_io_error(outcome)), << WriteEv(frame, outcome) >>)

send_text(s, text, mask_key, outcome) ==
    IF s.closed THEN Ret(s, Err("ConnectionClosed"), <<>>)
    ELSE send_frame(s, OPCODE_TEXT, text, mask_key, outcome)

send_binary(s, data, mask_key, outcome) ==
    IF s.closed THEN Ret(s, Err("ConnectionClosed"), <<>>)
    ELSE send_frame(s, OPCODE_BINARY, data, mask_key, outcome)

\* send_ping taking the time of the ping before it is written
send_ping_stamp_first(s, data, mask_key, outcome) ==
    IF s.closed THEN Ret(s, Err("ConnectionClosed"), <<>>)
    ELSE IF Len(data) > MaxControlPayload THEN Ret(s, Err("ProtocolError"), <<>>)
    ELSE LET w == send_frame(s, OPCODE_PING, data, mask_key, outcome)
         IN  Ret([w.s EXCEPT !.last_ping = now], w.r, w.ev)

send_ping(s, data, mask_key, outcome) ==
    IF s.closed THEN Ret(s, Err("ConnectionClosed"), <<>>)
    ELSE IF Len(data) > MaxControlPayload THEN Ret(s, Err("ProtocolError"), <<>>)
    ELSE LET w == send_frame(s, OPCODE_PING, data, mask_key, outcome)
         IN  IF w.r.ok
             THEN Ret([w.s EXCEPT !.last_ping = now], Ok(NoMsg), w.ev)
             ELSE w

\* send_pong without its closed check
send_pong_unchecked(s, data, mask_key, outcome) ==
    IF Len(data) > MaxControlPayload THEN Ret(s, Err("ProtocolError"), <<>>)
    ELSE send_frame(s, OPCODE_PONG, data, mask_key, outcome)

send_pong(s, data, mask_key, outcome) ==
    IF s.closed THEN Ret(s, Err("ConnectionClosed"), <<>>)
    ELSE IF Len(data) > MaxControlPayload THEN Ret(s, Err("ProtocolError"), <<>>)
    ELSE send_frame(s, OPCODE_PONG, data, mask_key, outcome)

\* close_with_code marking the connection closed whatever send_frame returned
close_with_code_closed_first(s, code, reason, mask_key, outcome) ==
    IF s.closed THEN Ret(s, Ok(NoMsg), <<>>)
    ELSE IF ~is_valid_close_code(code) THEN Ret(s, Err("InvalidCloseCode"), <<>>)
    ELSE IF Len(reason) > MaxCloseReason THEN Ret(s, Err("ProtocolError"), <<>>)
    ELSE LET payload == to_be_bytes(code, 2) \o reason
             w == send_frame(s, OPCODE_CLOSE, payload, mask_key, outcome)
         IN  Ret([w.s EXCEPT !.closed = TRUE], w.r, w.ev)

close_with_code(s, code, reason, mask_key, outcome) ==
    IF s.closed THEN Ret(s, Ok(NoMsg), <<>>)
    ELSE IF ~is_valid_close_code(code) THEN Ret(s, Err("InvalidCloseCode"), <<>>)
    ELSE IF Len(reason) > MaxCloseReason THEN Ret(s, Err("ProtocolError"), <<>>)
    ELSE LET payload == to_be_bytes(code, 2) \o reason
             w == send_frame(s, OPCODE_CLOSE, payload, mask_key, outcome)
         IN  IF w.r.ok
             THEN Ret([w.s EXCEPT !.closed = TRUE], Ok(NoMsg), w.ev)
             ELSE w

close(s, mask_key, outcome) == close_with_code(s, CLOSE_NORMAL, <<>>, mask_key, outcome)

-----------------------------------------------------------------------------
(* Reading.  read_exact(n) on the blocking transport returns the next n    *)
(* bytes; when fewer arrive before the timeout (or the end of the stream)  *)
(* it fails with an I/O error and the bytes it got are gone.               *)

read_exact(buf, n) ==
    IF Len(buf) >= n
    THEN [ok |-> TRUE, bytes |-> Take(buf, n), rest |-> Drop(buf, n)]
    ELSE [ok |-> FALSE, bytes |-> buf, rest |-> <<>>]

NoFrame == [fin |-> FALSE, opcode |-> 0, payload |-> <<>>]

FrameErr(e, rest, ev) ==
    [ok |-> FALSE, err |-> e, frame |-> NoFrame, rest |-> rest, ev |-> ev]

FrameOk(f, rest, ev) ==
    [ok |-> TRUE, err |-> "", frame |-> f, rest |-> rest, ev |-> ev]

\* payload_len as usize where usize has 32 bits: the low 4 bytes are kept
as_usize_32(v) == <<0, 0, 0, 0>> \o SubSeq(v, 5, 8)

\* payload_len as usize: usize has 64 bits (a 64-bit target such as
\* x86_64 or aarch64), so the cast keeps all 8 bytes
as_usize(v) == v

\* a usize known to be at most max_frame_size, as an integer
usize_int(v) == from_be_bytes(v)

\* the control-frame validation without its length check
control_frame_error_fin_only(fin, opcode, payload) ==
    IF is_control_frame(opcode) /\ ~fin THEN "ProtocolError" ELSE ""

\* the control-frame validation at the end of read_frame
control_frame_error(fin, opcode, payload) ==
    IF is_control_frame(opcode)
    THEN IF ~fin THEN "ProtocolError"
         ELSE IF Len(payload) > MaxControlPayload THEN "ProtocolError"
         ELSE ""
    ELSE ""

\* the part of read_frame after the length is resolved: size limit,
\* payload buffer, payload read, control-frame validation
read_payload(fin, opcode, payload_len, buf, ev) ==
    IF U64Gt(as_usize(payload_len), U64(config.max_frame_size))
    THEN FrameErr("FrameTooLarge", buf, ev)
    ELSE LET n   == usize_int(as_usize(payload_len))
             ev1 == Append(ev, AllocEv(n))
             p   == IF n > 0
                    THEN read_exact(buf, n)
                    ELSE [ok |-> TRUE, bytes |-> <<>>, rest |-> buf]
             ev2 == IF n > 0
                    THEN Append(ev1, ReadEv(n, p.bytes))
                    ELSE ev1
         IN  IF ~p.ok THEN FrameErr(from_io_error("TimedOut"), p.rest, ev2)
             ELSE LET e == control_frame_error(fin, opcode, p.bytes)
                  IN  IF e # "" THEN FrameErr(e, p.rest, ev2)
                      ELSE FrameOk([fin |-> fin, opcode |-> opcode, payload |-> p.bytes],
                                   p.rest, ev2)

\* payload_len & 0x8000_0000_0000_0000 != 0, on the 8 bytes of the u64
high_bit_set(len_bytes) == BitAnd(len_bytes[1], 128) # 0

\* the extended payload length of read_frame
read_length(fin, opcode, len7, buf, ev) ==
    IF len7 = 126
    THEN LET l == read_exact(buf, 2)
             ev1 == Append(ev, ReadEv(2, l.bytes))
         IN  IF ~l.ok THEN FrameErr(from_io_error("TimedOut"), l.rest, ev1)
             ELSE read_payload(fin, opcode, U64(from_be_bytes(l.bytes)), l.rest, ev1)
    ELSE IF len7 = 127
    THEN LET l == read_exact(buf, 8)
             ev1 == Append(ev, ReadEv(8, l.bytes))
         IN  IF ~l.ok THEN FrameErr(from_io_error("TimedOut"), l.rest, ev1)
             ELSE IF high_bit_set(l.bytes)
                  THEN FrameErr("ProtocolError", l.rest, ev1)
                  ELSE read_payload(fin, opcode, l.bytes, l.rest, ev1)
    ELSE read_payload(fin, opcode, U64(len7), buf, ev)

\* the header checks without the mask-bit check
header_error_rsv_only(rsv, masked) ==
    IF rsv # 0 THEN "ProtocolError" ELSE ""

\* the header checks of read_frame: reserved bits, mask bit
header_error(rsv, masked) ==
    IF rsv # 0 THEN "ProtocolError"
    ELSE IF masked THEN "ProtocolError"
    ELSE ""

read_frame(buf) ==
    LET h == read_exact(buf, 2)
        ev == << ReadEv(2, h.bytes) >>
    IN  IF ~h.ok THEN FrameErr(from_io_error("TimedOut"), h.rest, ev)
        ELSE LET header == h.bytes
                 fin    == BitAnd(header[1], 128) # 0
                 rsv    == BitAnd(header[1], 112) \div 16
                 opcode == BitAnd(header[1], 15)
                 masked == BitAnd(header[2], 128) # 0
                 len7   == BitAnd(header[2], 127)
                 e      == header_error(rsv, masked)
             IN  IF e # "" THEN FrameErr(e, h.rest, ev)
                 ELSE read_length(fin, opcode, len7, h.rest, ev)

\* the close branch reading the code little-endian
parse_close_le(payload) ==
    IF Len(payload) >= 2
    THEN CloseMsg(payload[1] + 256 * payload[2],
                  IF Len(payload) > 2 THEN from_utf8_lossy(Drop(payload, 2)) ELSE <<>>)
    ELSE CloseMsg(NoCode, <<>>)

\* the close branch of read_message: code and reason from the payload
parse_close(payload) ==
    IF Len(payload) >= 2
    THEN CloseMsg(from_be_bytes(Take(payload, 2)),
                  IF Len(payload) > 2 THEN from_utf8_lossy(Drop(payload, 2)) ELSE <<>>)
    ELSE CloseMsg(NoCode, <<>>)

\* the dispatch answering no ping
dispatch_no_pong(s, frame, key2, out2) ==
    CASE frame.opcode = OPCODE_TEXT ->
            IF from_utf8_ok(frame.payload)
            THEN Ret(s, Ok(Msg("Text", frame.payload)), <<>>)
            ELSE Ret(s, Err("InvalidUtf8"), <<>>)
      [] frame.opcode = OPCODE_BINARY ->
            Ret(s, Ok(Msg("Binary", frame.payload)), <<>>)
      [] frame.opcode = OPCODE_PING ->
            Ret(s, Ok(Msg("Ping", frame.payload)), <<>>)
      [] frame.opcode = OPCODE_PONG ->
            Ret(s, Ok(Msg("Pong", frame.payload)), <<>>)
      [] frame.opcode = OPCODE_CLOSE ->
            Ret([s EXCEPT !.closed = TRUE], Ok(parse_close(frame.payload)), <<>>)
      [] OTHER ->
            Ret(s, Err("ProtocolError"), <<>>)

\* the dispatch handing a frame of an opcode it does not know to the caller
dispatch_unknown_delivered(s, frame, key2, out2) ==
    CASE frame.opcode = OPCODE_TEXT ->
            IF from_utf8_ok(frame.payload)
            THEN Ret(s, Ok(Msg("Text", frame.payload)), <<>>)
            ELSE Ret(s, Err("InvalidUtf8"), <<>>)
      [] frame.opcode = OPCODE_PING ->
            LET w == send_pong(s, frame.payload, key2, out2)
            IN  Ret(w.s, Ok(Msg("Ping", frame.payload)), w.ev)
      [] frame.opcode = OPCODE_PONG ->
            Ret(s, Ok(Msg("Pong", frame.payload)), <<>>)
      [] frame.opcode = OPCODE_CLOSE ->
            Ret([s EXCEPT !.closed = TRUE], Ok(parse_close(frame.payload)), <<>>)
      [] OTHER ->
            Ret(s, Ok(Msg("Binary", frame.payload)), <<>>)

\* the dispatch answering a close frame with a close frame
dispatch_close_echo(s, frame, key2, out2) ==
    CASE frame.opcode = OPCODE_TEXT ->
            IF from_utf8_ok(frame.payload)
            THEN Ret(s, Ok(Msg("Text", frame.payload)), <<>>)
            ELSE Ret(s, Err("InvalidUtf8"), <<>>)
      [] frame.opcode = OPCODE_BINARY ->
            Ret(s, Ok(Msg("Binary", frame.payload)), <<>>)
      [] frame.opcode = OPCODE_PING ->
            LET w == send_pong(s, frame.payload, key2, out2)
            IN  Ret(w.s, Ok(Msg("Ping", frame.payload)), w.ev)
      [] frame.opcode = OPCODE_PONG ->
            Ret(s, Ok(Msg("Pong", frame.payload)), <<>>)
      [] frame.opcode = OPCODE_CLOSE ->
            LET w == send_frame(s, OPCODE_CLOSE, frame.payload, key2, out2)
            IN  Ret([w.s EXCEPT !.closed = TRUE], Ok(parse_close(frame.payload)), w.ev)
      [] OTHER ->
            Ret(s, Err("ProtocolError"), <<>>)

\* the opcode dispatch of read_message on a decoded frame
dispatch(s, frame, key2, out2) ==
    CASE frame.opcode = OPCODE_TEXT ->
            IF from_utf8_ok(frame.payload)
            THEN Ret(s, Ok(Msg("Text", frame.payload)), <<>>)
            ELSE Ret(s, Err("InvalidUtf8"), <<>>)
      [] frame.opcode = OPCODE_BINARY ->
            Ret(s, Ok(Msg("Binary", frame.payload)), <<>>)
      [] frame.opcode = OPCODE_PING ->
            LET w == send_pong(s, frame.payload, key2, out2)
            IN  Ret(w.s, Ok(Msg("Ping", frame.payload)), w.ev)
      [] frame.opcode = OPCODE_PONG ->
            Ret(s, Ok(Msg("Pong", frame.payload)), <<>>)
      [] frame.opcode = OPCODE_CLOSE ->
            Ret([s EXCEPT !.closed = TRUE], Ok(parse_close(frame.payload)), <<>>)
      [] OTHER ->
            Ret(s, Err("ProtocolError"), <<>>)

\* whether read_message sends the keepalive ping: last_ping.elapsed() > ping_interval
keepalive_due(s) == now - s.last_ping > config.ping_interval

\* the payload of the keepalive ping, b"ping"
KeepalivePayload == <<112, 105, 110, 103>>

\* read_message returning the keepalive ping's error to its caller
read_open_ping_checked(s, buf, key1, out1, key2, out2) ==
    LET k  == IF keepalive_due(s)
              THEN send_ping(s, KeepalivePayload, key1, out1)
              ELSE Ret(s, Ok(NoMsg), <<>>)
        f  == read_frame(buf)
    IN  IF ~k.r.ok
        THEN [s |-> k.s, r |-> k.r, ev |-> k.ev, rest |-> buf]
        ELSE IF ~f.ok
        THEN [s |-> k.s, r |-> Err(f.err), ev |-> k.ev \o f.ev, rest |-> f.rest]
        ELSE LET d == dispatch(k.s, f.frame, key2, out2)
             IN  [s |-> d.s, r |-> d.r, ev |-> k.ev \o f.ev \o d.ev, rest |-> f.rest]

\* read_message past its closed check: the keepalive ping (its error
\* dropped), the frame read, the dispatch
read_open(s, buf, key1, out1, key2, out2) ==
    LET k  == IF keepalive_due(s)
              THEN send_ping(s, KeepalivePayload, key1, out1)
              ELSE Ret(s, Ok(NoMsg), <<>>)
        f  == read_frame(buf)
    IN  IF ~f.ok
        THEN [s |-> k.s, r |-> Err(f.err), ev |-> k.ev \o f.ev, rest |-> f.rest]
        ELSE LET d == dispatch(k.s, f.frame, key2, out2)
             IN  [s |-> d.s, r |-> d.r, ev |-> k.ev \o f.ev \o d.ev, rest |-> f.rest]

\* read_message without its closed check
read_message_unchecked(s, buf, key1, out1, key2, out2) ==
    read_open(s, buf, key1, out1, key2, out2)

\* read_message returns [s, r, ev, rest]: rest is what is left of the input
read_message(s, buf, key1, out1, key2, out2) ==
    IF s.closed
    THEN [s |-> s, r |-> Err("ConnectionClosed"), ev |-> <<>>, rest |-> buf]
    ELSE read_open(s, buf, key1, out1, key2, out2)

-----------------------------------------------------------------------------
(* connect_with_config and the opening handshake.                          *)

\* char::to_lowercase on ASCII
Lower(c) == IF c >= 65 /\ c <= 90 THEN c + 32 ELSE c

to_lowercase(str) == [i \in 1..Len(str) |-> Lower(str[i])]

\* char::is_whitespace on ASCII: tab, LF, VT, FF, CR, space
IsSpace(c) == c \in {9, 10, 11, 12, 13, 32}

RECURSIVE TrimStart(_)
TrimStart(str) ==
    IF str # <<>> /\ IsSpace(str[1]) THEN TrimStart(Tail(str)) ELSE str

RECURSIVE TrimEnd(_)
TrimEnd(str) ==
    IF str # <<>> /\ IsSpace(str[Len(str)]) THEN TrimEnd(Take(str, Len(str) - 1)) ELSE str

Trim(str) == TrimEnd(TrimStart(str))

StartsWith(str, pat) == Len(str) >= Len(pat) /\ Take(str, Len(pat)) = pat

Contains(str, pat) == Find(str, pat) # 0

CRLF == <<13, 10>>

StatusPrefix == <<72, 84, 84, 80, 47, 49, 46, 49, 32, 49, 48, 49>>   \* "HTTP/1.1 101"
Websocket == <<119, 101, 98, 115, 111, 99, 107, 101, 116>>         \* "websocket"
Upgrade == <<117, 112, 103, 114, 97, 100, 101>>                     \* "upgrade"
Connection == <<99, 111, 110, 110, 101, 99, 116, 105, 111, 110>>    \* "connection"
SecWebSocketAccept ==                                           \* "sec-websocket-accept"
    <<115, 101, 99, 45, 119, 101, 98, 115, 111, 99, 107, 101, 116, 45, 97,
      99, 99, 101, 112, 116>>
UserAgent ==                                                    \* "RustWebSocketTLS/1.0"
    <<82, 117, 115, 116, 87, 101, 98, 83, 111, 99, 107, 101, 116, 84, 76,
      83, 47, 49, 46, 48>>

\* generate_websocket_key: base64 of 16 bytes hashed from the clock
WebSocketKeys == { <<97, 50, 86, 53, 77, 81, 61, 61>>, <<97, 50, 86, 53, 77, 103, 61, 61>> }

\* generate_accept_key: base64(SHA-1(key ++ magic)), a function of the key
\* alone that takes different keys to different values; the reversed key
\* stands for it
generate_accept_key(key) == [i \in 1..Len(key) |-> key[Len(key) + 1 - i]]

\* the HTTP upgrade request perform_handshake formats
HandshakeRequest(host, path, key) ==
    <<71, 69, 84, 32>> \o path \o <<32, 72, 84, 84, 80, 47, 49, 46, 49>> \o CRLF
      \o <<72, 111, 115, 116, 58, 32>> \o host \o CRLF
      \o <<85, 112, 103, 114, 97, 100, 101, 58, 32, 119, 101, 98, 115, 111,
        99, 107, 101, 116>> \o CRLF
      \o <<67, 111, 110, 110, 101, 99, 116, 105, 111, 110, 58, 32, 85, 112,
        103, 114, 97, 100, 101>> \o CRLF
      \o <<83, 101, 99, 45, 87, 101, 98, 83, 111, 99, 107, 101, 116, 45, 75,
        101, 121, 58, 32>>
      \o key \o CRLF
      \o <<83, 101, 99, 45, 87, 101, 98, 83, 111, 99, 107, 101, 116, 45, 86,
        101, 114, 115, 105, 111, 110, 58, 32, 49, 51>>
      \o CRLF
      \o <<85, 115, 101, 114, 45, 65, 103, 101, 110, 116, 58, 32>> \o UserAgent \o CRLF
      \o <<79, 114, 105, 103, 105, 110, 58, 32, 104, 116, 116, 112, 115, 58,
        47, 47>> \o host \o CRLF
      \o CRLF

\* a read_line of the response: the line it returned, or its failure
LineEv(line, how) ==
    [ev |-> "read_line", n |-> 0, got |-> Len(line), bytes |-> line, how |-> how]

\* headers.get(name): the value inserted last under name, <<>> with
\* found FALSE for None
HeaderGet(headers, name) ==
    LET at == { i \in 1..Len(headers) : headers[i].key = name }
    IN  IF at = {} THEN [found |-> FALSE, value |-> <<>>]
        ELSE [found |-> TRUE, value |-> headers[CHOOSE i \in at : \A j \in at : i >= j].value]

\* validate_handshake_headers taking any Connection header
validate_handshake_headers_any_connection(headers, key) ==
    LET upgrade == HeaderGet(headers, Upgrade)
        accept == HeaderGet(headers, SecWebSocketAccept)
    IN  IF ~(upgrade.found /\ to_lowercase(upgrade.value) = Websocket)
        THEN Err("HandshakeError")
        ELSE IF ~accept.found THEN Err("HandshakeError")
        ELSE IF accept.value # generate_accept_key(key) THEN Err("HandshakeError")
        ELSE Ok(NoMsg)

validate_handshake_headers(headers, key) ==
    LET upgrade == HeaderGet(headers, Upgrade)
        connection == HeaderGet(headers, Connection)
        accept == HeaderGet(headers, SecWebSocketAccept)
    IN  IF ~(upgrade.found /\ to_lowercase(upgrade.value) = Websocket)
        THEN Err("HandshakeError")
        ELSE IF ~(connection.found /\ Contains(to_lowercase(connection.value), Upgrade))
        THEN Err("HandshakeError")
        ELSE IF ~accept.found THEN Err("HandshakeError")
        ELSE IF accept.value # generate_accept_key(key) THEN Err("HandshakeError")
        ELSE Ok(NoMsg)

\* one pass of the header loop on a line: an entry for "key: value", the
\* headers unchanged for a line without ':'
insert_header(headers, line) ==
    LET colon == Find(line, << Colon >>)
    IN  IF colon = 0 THEN headers
        ELSE Append(headers,
                    [key |-> to_lowercase(Trim(Take(line, colon - 1))),
                     value |-> Trim(Drop(line, colon))])

\* The header loop of perform_handshake on the lines the server sent and on
\* what follows them: the blank line ("blank"), the end of the stream
\* ("eof": read_line returns an empty line) or nothing until the read
\* timeout ("stall": read_line fails).
RECURSIVE read_headers(_, _, _, _)
read_headers(lines, ending, headers, ev) ==
    IF lines = <<>>
    THEN IF ending = "stall"
         THEN [ok |-> FALSE, headers |-> headers, ev |-> Append(ev, LineEv(<<>>, "read_err"))]
         ELSE [ok |-> TRUE, headers |-> headers,
               ev |-> Append(ev, LineEv(IF ending = "blank" THEN CRLF ELSE <<>>, "ok"))]
    ELSE IF Trim(lines[1]) = <<>>
    THEN [ok |-> TRUE, headers |-> headers, ev |-> Append(ev, LineEv(lines[1], "ok"))]
    ELSE read_headers(Tail(lines), ending, insert_header(headers, lines[1]),
                      Append(ev, LineEv(lines[1], "ok")))

\* perform_handshake: [r, ev]
perform_handshake(host, path, key, outcome, resp) ==
    LET w == WriteEv(HandshakeRequest(host, path, key), outcome)
    IN  IF outcome # "ok" THEN [r |-> Err(from_io_error(outcome)), ev |-> << w >>]
        ELSE IF resp.status.how = "stall"
        THEN [r |-> Err(from_io_error("TimedOut")), ev |-> << w, LineEv(<<>>, "read_err") >>]
        ELSE LET response_line == resp.status.text
                 ev1 == << w, LineEv(response_line, "ok") >>
             IN  IF ~StartsWith(response_line, StatusPrefix)
                 THEN [r |-> Err("HandshakeError"), ev |-> ev1]
                 ELSE LET h == read_headers(resp.lines, resp.ending, <<>>, ev1)
                      IN  IF ~h.ok THEN [r |-> Err(from_io_error("TimedOut")), ev |-> h.ev]
                          ELSE [r |-> validate_handshake_headers(h.headers, key),
                                ev |-> h.ev]

\* let mut reader = BufReader::new(&mut self.stream): a read_line on an
\* empty buffer takes all that one read of the stream returns.  `sent` is
\* what the server has sent behind the blank line, `ahead` how much of it
\* came in the read that brought the blank line: that much is in the reader
\* when perform_handshake returns and is dropped with it.
BufReader_dropped(sent, ahead) == Drop(sent, ahead)

\* what resolving the host and opening the stream can do: all of it works;
\* to_socket_addrs fails or finds no address; the TCP connect or a socket
\* option fails; the TLS session cannot be set up
NetOutcomes == { "ok", "dns_err", "no_addrs", "tcp_err", "tls_err" }

\* connect_with_config: [r, ev, made]; made says that the client object was
\* constructed (it is dropped again when the handshake fails)
connect_with_config(u, net, key, outcome, resp) ==
    LET parsed_url == parse_websocket_url(u)
    IN  IF ~parsed_url.ok THEN [r |-> Err(parsed_url.err), ev |-> <<>>, made |-> FALSE]
        ELSE IF net \in {"dns_err", "no_addrs"}
        THEN [r |-> Err("DnsError"), ev |-> <<>>, made |-> FALSE]
        ELSE IF net = "tcp_err"
        THEN [r |-> Err(from_io_error(net)), ev |-> <<>>, made |-> FALSE]
        ELSE IF net = "tls_err" /\ parsed_url.scheme = WSS
        THEN [r |-> Err("TlsError"), ev |-> <<>>, made |-> FALSE]
        ELSE LET h == perform_handshake(parsed_url.host, parsed_url.path, key, outcome, resp)
             IN  [r |-> h.r, ev |-> h.ev, made |-> TRUE]

-----------------------------------------------------------------------------
(* The peer.  It sends one frame at a time, well-formed or not, as the     *)
(* bytes read_frame will parse; the last `hold` bytes of a frame may       *)
(* arrive late (after a read has timed out).                               *)

\* form is the length form (7, 16 or 64 bits), declared the length the
\* header states, as a u64
PeerFrame(fin, rsv, opcode, masked, form, declared, payload, hold) ==
    [fin |-> fin, rsv |-> rsv, opcode |-> opcode, masked |-> masked,
     form |-> form, declared |-> declared, payload |-> payload, hold |-> hold]

ShortestForm(n) == IF n < 126 THEN 7 ELSE IF n < 65536 THEN 16 ELSE 64

PeerBytes(f) ==
    LET b1 == (IF f.fin THEN 128 ELSE 0) + 16 * f.rsv + f.opcode
        m  == IF f.masked THEN 128 ELSE 0
        lenBytes ==
            CASE f.form = 7  -> << m + f.declared[8] >>
              [] f.form = 16 -> << m + 126 >> \o SubSeq(f.declared, 7, 8)
              [] OTHER       -> << m + 127 >> \o f.declared
        key == IF f.masked THEN <<1, 2, 3, 4>> ELSE <<>>
    IN  << b1 >> \o lenBytes \o key \o f.payload

PeerOpcodes == {0, 1, 2, 3, 8, 9, 10, 11}

PeerPayloads ==
    { <<>>, <<65>>, <<3, 232>>, <<3, 232, 104, 105>>, <<3, 232, 255>>,
      <<195, 169>>, <<195>>, Fill(MaxControlPayload), Fill(MaxControlPayload + 1) }

\* well-formed headers, every opcode, final or not
HonestFrames ==
    { PeerFrame(fin, 0, op, FALSE, ShortestForm(Len(p)), U64(Len(p)), p, 0) :
        fin \in BOOLEAN, op \in PeerOpcodes, p \in PeerPayloads }

\* a longer length form than the payload needs
LongFormFrames ==
    { PeerFrame(TRUE, 0, op, FALSE, form, U64(Len(p)), p, 0) :
        op \in {1, 9}, form \in {16, 64}, p \in { <<65>>, Fill(MaxControlPayload + 1) } }

\* a reserved bit set
RsvFrames ==
    { PeerFrame(TRUE, rsv, op, FALSE, 7, U64(Len(p)), p, 0) :
        rsv \in {1, 2, 4}, op \in {1, 9}, p \in { <<>>, <<65>> } }

\* the mask bit set
MaskedFrames ==
    { PeerFrame(TRUE, 0, op, TRUE, 7, U64(Len(p)), p, 0) :
        op \in {1, 8, 9}, p \in { <<>>, <<65>> } }

\* a declared length the payload sent does not have
OverDeclared16 == { U64(LargeFrameSize + 1), U64(65535) }
OverDeclared64 ==
    { U64(LargeFrameSize + 1),
      <<0, 0, 0, 1, 0, 0, 0, 0>>,                   \* 2^32
      <<127, 255, 255, 255, 255, 255, 255, 255>>,   \* 2^63 - 1
      <<128, 0, 0, 0, 0, 0, 0, 0>>,                 \* 2^63
      <<255, 255, 255, 255, 255, 255, 255, 255>> }  \* 2^64 - 1

OversizeFrames ==
    { PeerFrame(TRUE, 0, op, FALSE, 16, d, p, 0) :
        op \in {2, 9}, d \in OverDeclared16, p \in { <<>>, <<65>> } }
    \cup
    { PeerFrame(TRUE, 0, op, FALSE, 64, d, p, 0) :
        op \in {2, 9}, d \in OverDeclared64, p \in { <<>>, <<65>> } }

\* a frame whose last bytes arrive late
LateFrames ==
    { PeerFrame(TRUE, 0, op, FALSE, 7, U64(2), <<65, 66>>, hold) :
        op \in {1, 9}, hold \in 1..3 }

PeerFrames ==
    HonestFrames \cup LongFormFrames \cup RsvFrames \cup MaskedFrames
        \cup OversizeFrames \cup LateFrames

NoPeer == PeerFrame(FALSE, 0, 0, FALSE, 7, U64(0), <<>>, 0)

\* What the transport has for a read: frame is the frame whose first bytes
\* arrive now (at_frame), bytes what the read finds, later what stays late.
Arrival(at_frame, f, bytes, later) ==
    [at_frame |-> at_frame, frame |-> f, bytes |-> bytes, later |-> later]

NoArrival == Arrival(FALSE, NoPeer, inbuf, withheld)

PeerArrivals ==
    { Arrival(TRUE, f, Take(PeerBytes(f), Len(PeerBytes(f)) - f.hold),
              Drop(PeerBytes(f), Len(PeerBytes(f)) - f.hold)) : f \in PeerFrames }

\* The peer sends its next frame once the bytes of the one before are read;
\* until then the read finds what is left, with or without the late bytes.
Arrivals ==
    IF inbuf = <<>> /\ withheld = <<>>
    THEN PeerArrivals \cup { NoArrival }
    ELSE { NoArrival, Arrival(FALSE, NoPeer, inbuf \o withheld, <<>>) }

-----------------------------------------------------------------------------
(* The server's handshake response, written from its parts: the status     *)
(* line, the three headers the client validates (each absent, valid or     *)
(* not), and what follows the headers.                                     *)

\* [how, text, valid]: how is "line", "eof" (the stream ended) or "stall"
StatusPart(how, text, valid) == [how |-> how, text |-> text, valid |-> valid]

StatusParts ==
    { StatusPart("line",      \* "HTTP/1.1 101 Switching Protocols\r\n"
        <<72, 84, 84, 80, 47, 49, 46, 49, 32, 49, 48, 49, 32, 83, 119, 105,
          116, 99, 104, 105, 110, 103, 32, 80, 114, 111, 116, 111, 99, 111,
          108, 115, 13, 10>>, TRUE),
      StatusPart("line",      \* "HTTP/1.1 1010 Odd\r\n"
        <<72, 84, 84, 80, 47, 49, 46, 49, 32, 49, 48, 49, 48, 32, 79, 100,
          100, 13, 10>>, TRUE),
      StatusPart("line",      \* "HTTP/1.1 400 Bad Request\r\n"
        <<72, 84, 84, 80, 47, 49, 46, 49, 32, 52, 48, 48, 32, 66, 97, 100,
          32, 82, 101, 113, 117, 101, 115, 116, 13, 10>>, FALSE),
      StatusPart("line",      \* "HTTP/1.0 101 Switching Protocols\r\n"
        <<72, 84, 84, 80, 47, 49, 46, 48, 32, 49, 48, 49, 32, 83, 119, 105,
          116, 99, 104, 105, 110, 103, 32, 80, 114, 111, 116, 111, 99, 111,
          108, 115, 13, 10>>, FALSE),
      StatusPart("line",      \* "http/1.1 101\r\n"
        <<104, 116, 116, 112, 47, 49, 46, 49, 32, 49, 48, 49, 13, 10>>, FALSE),
      StatusPart("eof", <<>>, FALSE),
      StatusPart("stall", <<>>, FALSE) }

\* [given, line, valid]
HeaderPart(given, line, valid) == [given |-> given, line |-> line, valid |-> valid]

NoHeader == HeaderPart(FALSE, <<>>, FALSE)

UpgradeParts ==
    { NoHeader,
      HeaderPart(TRUE,        \* "Upgrade: websocket\r\n"
        <<85, 112, 103, 114, 97, 100, 101, 58, 32, 119, 101, 98, 115, 111,
          99, 107, 101, 116, 13, 10>>, TRUE),
      HeaderPart(TRUE,        \* "UPGRADE:  WebSocket \r\n"
        <<85, 80, 71, 82, 65, 68, 69, 58, 32, 32, 87, 101, 98, 83, 111, 99,
          107, 101, 116, 32, 13, 10>>, TRUE),
      HeaderPart(TRUE,        \* "Upgrade: h2c\r\n"
        <<85, 112, 103, 114, 97, 100, 101, 58, 32, 104, 50, 99, 13, 10>>, FALSE),
      HeaderPart(TRUE,        \* "Upgrade: websocket2\r\n"
        <<85, 112, 103, 114, 97, 100, 101, 58, 32, 119, 101, 98, 115, 111,
          99, 107, 101, 116, 50, 13, 10>>, FALSE) }

ConnectionParts ==
    { NoHeader,
      HeaderPart(TRUE,        \* "Connection: Upgrade\r\n"
        <<67, 111, 110, 110, 101, 99, 116, 105, 111, 110, 58, 32, 85, 112,
          103, 114, 97, 100, 101, 13, 10>>, TRUE),
      HeaderPart(TRUE,        \* "connection: keep-alive, Upgrade\r\n"
        <<99, 111, 110, 110, 101, 99, 116, 105, 111, 110, 58, 32, 107, 101,
          101, 112, 45, 97, 108, 105, 118, 101, 44, 32, 85, 112, 103, 114,
          97, 100, 101, 13, 10>>, TRUE),
      HeaderPart(TRUE,        \* "Connection: close\r\n"
        <<67, 111, 110, 110, 101, 99, 116, 105, 111, 110, 58, 32, 99, 108,
          111, 115, 101, 13, 10>>, FALSE) }

AcceptName ==                 \* "Sec-WebSocket-Accept: "
    <<83, 101, 99, 45, 87, 101, 98, 83, 111, 99, 107, 101, 116, 45, 65, 99,
      99, 101, 112, 116, 58, 32>>

\* the right accept value, the one for another key, the right one in lower case
AcceptParts(key) ==
    { NoHeader,
      HeaderPart(TRUE, AcceptName \o generate_accept_key(key) \o CRLF, TRUE),
      HeaderPart(TRUE, AcceptName \o key \o CRLF, FALSE),
      HeaderPart(TRUE, AcceptName \o to_lowercase(generate_accept_key(key)) \o CRLF, FALSE) }

JunkLine == <<88, 45, 74, 117, 110, 107, 13, 10>>   \* "X-Junk\r\n"

HeaderLines(parts) ==
    (IF parts[1].given THEN << parts[1].line >> ELSE <<>>)
        \o << JunkLine >>
        \o (IF parts[2].given THEN << parts[2].line >> ELSE <<>>)
        \o (IF parts[3].given THEN << parts[3].line >> ELSE <<>>)

Response(status, upgrade, connection, accept, ending) ==
    [status |-> status, upgrade |-> upgrade, connection |-> connection,
     accept |-> accept, ending |-> ending,
     lines |-> HeaderLines(<< upgrade, connection, accept >>)]

Endings == { "blank", "eof", "stall" }

Responses(key) ==
    { Response(st, up, co, ac, en) :
        st \in StatusParts, up \in UpgradeParts, co \in ConnectionParts,
        ac \in AcceptParts(key), en \in Endings }

GoodKey == <<97, 50, 86, 53, 77, 81, 61, 61>>

GoodResponse ==
    Response(StatusPart("line",
        <<72, 84, 84, 80, 47, 49, 46, 49, 32, 49, 48, 49, 32, 83, 119, 105,
          116, 99, 104, 105, 110, 103, 32, 80, 114, 111, 116, 111, 99, 111,
          108, 115, 13, 10>>, TRUE),
      HeaderPart(TRUE,
        <<85, 112, 103, 114, 97, 100, 101, 58, 32, 119, 101, 98, 115, 111,
          99, 107, 101, 116, 13, 10>>, TRUE),
      HeaderPart(TRUE,
        <<67, 111, 110, 110, 101, 99, 116, 105, 111, 110, 58, 32, 85, 112,
          103, 114, 97, 100, 101, 13, 10>>, TRUE),
      HeaderPart(TRUE, AcceptName \o generate_accept_key(GoodKey) \o CRLF, TRUE),
      "blank")

GoodUrl == <<119, 115, 58, 47, 47, 104, 47, 112>>   \* "ws://h/p"

ConnectUrls ==
    { GoodUrl,
      <<119, 115, 115, 58, 47, 47, 104>>,          \* "wss://h"
      <<104, 116, 116, 112, 58, 47, 47, 104, 58, 56, 48, 47>>,   \* "http://h:80/"
      <<104>> }                                 \* "h"

\* what connect_with_config is called with and meets
\* nothing sent behind the response by the time the handshake ends
NoEarly == [sent |-> <<>>, ahead |-> 0]

ConnectCall(u, net, key, out, resp) ==
    [url |-> u, net |-> net, key |-> key, out |-> out, resp |-> resp, early |-> NoEarly]

NoResponse == Response(StatusPart("eof", <<>>, FALSE), NoHeader, NoHeader, NoHeader, "eof")

NoConnectCall == ConnectCall(<<>>, "none", <<>>, "none", NoResponse)

\* the first frame of a server that sends it right behind its response: a
\* final text frame "AB"
EarlyFrame == PeerFrame(TRUE, 0, OPCODE_TEXT, FALSE, 7, U64(2), <<65, 66>>, 0)

\* The read that brings the blank line brings the frame's header, or the
\* whole frame.  (A frame that comes in a later read is a frame of the peer
\* like any other.)
EarlyCalls ==
    { [ConnectCall(GoodUrl, "ok", GoodKey, "ok", GoodResponse)
          EXCEPT !.early = [sent |-> PeerBytes(EarlyFrame), ahead |-> n]] :
        n \in {2, Len(PeerBytes(EarlyFrame))} }

ConnectCalls ==
    { ConnectCall(u, net, GoodKey, "ok", GoodResponse) : u \in ConnectUrls, net \in NetOutcomes }
        \cup
    UNION { { ConnectCall(GoodUrl, "ok", key, out, resp) :
                out \in WriteOutcomes, resp \in Responses(key) } : key \in WebSocketKeys }
        \cup
    EarlyCalls

-----------------------------------------------------------------------------
(* The state before connect_with_config is called, and the steps.          *)

Config(max_frame_size, ping_interval) ==
    [max_frame_size |-> max_frame_size, ping_interval |-> ping_interval]

\* what an operation finds when it is called: the closed flag, last_ping,
\* (for a read) the frame that arrives and whether the read starts at its
\* first header byte, (for close_with_code) the code it is given, and (for
\* connect) what it is called with and meets
Pre(a) ==
    [closed |-> closed, last_ping |-> last_ping,
     at_frame |-> a.at_frame, frame |-> a.frame, code |-> NoCode,
     call |-> NoConnectCall]

NoPre ==
    [closed |-> FALSE, last_ping |-> 0, at_frame |-> FALSE, frame |-> NoPeer,
     code |-> NoCode, call |-> NoConnectCall]

NoCloseFrames == [taken |-> 0, flushed |-> 0]

\* no URL under parse
UrlOff == url = << >> /\ parsed = NotParsed

NoOutgoing == [opcode |-> 0, payload |-> <<>>, mask_key |-> <<0, 0, 0, 0>>]

EncOff == outgoing = NoOutgoing

\* LatencyStats::new
LatencyStats_new ==
    [count |-> 0, total_latency_ns |-> U64(0), min_latency_ns |-> U64_MAX,
     max_latency_ns |-> U64(0), last_10 |-> <<>>]

NoAnswers == [asked |-> FALSE]

StatsOff ==
    /\ stats = LatencyStats_new
    /\ samples = <<>>
    /\ answers = NoAnswers
    /\ build = "release"
    /\ panicked = FALSE

Threads == {1, 2, 3}

NoRecord == [start_time_ns |-> -1, start_time |-> -1]

\* OnceLock::new
OnceLock_new == [state |-> "incomplete", value |-> NoRecord]

NoReading == -1

\* a thread outside get_high_res_time_ns that has not called it yet: no
\* record got, no value returned
NewThread ==
    [pc |-> "idle", timer |-> NoRecord, waited |-> FALSE, calls |-> 0, start_time_ns |-> -1,
     read |-> NoReading, before |-> NoReading]

TimerOff ==
    /\ cell = OnceLock_new
    /\ threads = [t \in Threads |-> NewThread]
    /\ calibrations = 0
    /\ clock = 0

\* the loop of main has met nothing yet
NoStep ==
    [kind |-> "none", ts |-> "none", ts_ms |-> 0, receive_time |-> 0,
     samples_before |-> 0, count_before |-> 0]

\* main has not started
AppOff == app = [pc |-> "start", connects |-> 0, steps |-> 0, last |-> NoStep]

Init ==
    /\ UrlOff
    /\ EncOff
    /\ StatsOff
    /\ TimerOff
    /\ AppOff
    /\ config \in { Config(SmallFrameSize, PingInterval), Config(LargeFrameSize, PingInterval) }
    /\ closed = FALSE
    /\ now = 0
    /\ last_ping = 0
    /\ inbuf = <<>>
    /\ withheld = <<>>
    /\ result = NoResult
    /\ events = <<>>
    /\ pre = NoPre
    /\ closed_by = "none"
    /\ close_frames = NoCloseFrames
    /\ session = "new"

\* the caller holds a client and no return value: it may call the next
\* operation on the client
Idle == result.op = "none" /\ session = "open"

\* op, called with what p records, returned x: the client's fields, the
\* return value, the events
\* the close frames among the frames of a call whose write went one of `hows`
CloseFramesIn(ev, hows) ==
    Cardinality({ i \in 1..Len(ev) :
                    /\ ev[i].ev = "write"
                    /\ ev[i].how \in hows
                    /\ BitAnd(ev[i].bytes[1], 15) = OPCODE_CLOSE })

CountedTo(n) == IF n > MaxCloseFrames THEN MaxCloseFrames ELSE n

ReturnedFrom(op, x, p) ==
    /\ closed' = x.s.closed
    /\ last_ping' = x.s.last_ping
    /\ result' = Called(op, x.r)
    /\ events' = x.ev
    /\ pre' = p
    /\ closed_by' = IF closed \/ ~x.s.closed THEN closed_by
                    ELSE IF op = "read_message" THEN "peer" ELSE "local"
    \* write_all took the frame whole whether or not the flush failed
    /\ close_frames' =
            [taken   |-> CountedTo(close_frames.taken
                                     + CloseFramesIn(x.ev, {"ok", "flush_err"})),
             flushed |-> CountedTo(close_frames.flushed + CloseFramesIn(x.ev, {"ok"}))]

Returned(op, x, a) == ReturnedFrom(op, x, Pre(a))

\* connect_with_config returns the client or an error
Connect ==
    /\ session = "new"
    /\ result.op = "none"
    /\ \E c \in ConnectCalls :
            LET x == connect_with_config(c.url, c.net, c.key, c.out, c.resp)
            IN  /\ session' = IF x.r.ok THEN "open" ELSE "failed"
                /\ result' = Called("connect", x.r)
                /\ events' = x.ev
                /\ pre' = [NoPre EXCEPT !.call = c]
                /\ last_ping' = now
                /\ closed' = FALSE
                /\ inbuf' = IF x.r.ok
                            THEN BufReader_dropped(c.early.sent, c.early.ahead)
                            ELSE <<>>
                /\ UNCHANGED <<config, now, withheld, closed_by, close_frames, non_ws_vars>>

TextInputs == { <<104, 105>>, Fill(SmallFrameSize + 1) }
BinaryInputs == { <<0, 255>> }
PingInputs == { <<>>, <<112>>, Fill(MaxControlPayload + 1) }
PongInputs == { <<112>>, Fill(MaxControlPayload + 1) }
\* the codes a close is called with: with every reason and write outcome
\* (CloseCodes), and the ends of the ranges of is_valid_close_code and
\* their neighbours with an empty reason (EdgeCodes)
CloseCodes == { 1000, 3000 }
EdgeCodes ==
    { 0, 999, 1001, 1002, 1003, 1004, 1005, 1006, 1007, 1008, 1011, 1012,
      2999, 3500, 4999, 5000, 65535 }
CloseReasons == { <<>>, <<98, 121, 101>>, Fill(MaxCloseReason + 1) }

\* The mask key and the outcome of a write matter only when the write is
\* made, and no operation writes on a closed connection.
Writes == [key : MaskKeys, out : WriteOutcomes]

AnyWrite == [key |-> <<0, 0, 0, 0>>, out |-> "ok"]

SendWrites == IF closed THEN { AnyWrite } ELSE Writes

SendText ==
    /\ Idle
    /\ \E text \in TextInputs, w \in SendWrites :
            /\ Returned("send_text", send_text(Self, text, w.key, w.out), NoArrival)
            /\ UNCHANGED <<config, now, inbuf, withheld, session, non_ws_vars>>

SendBinary ==
    /\ Idle
    /\ \E data \in BinaryInputs, w \in SendWrites :
            /\ Returned("send_binary", send_binary(Self, data, w.key, w.out), NoArrival)
            /\ UNCHANGED <<config, now, inbuf, withheld, session, non_ws_vars>>

SendPing ==
    /\ Idle
    /\ \E data \in PingInputs, w \in SendWrites :
            /\ Returned("send_ping", send_ping(Self, data, w.key, w.out), NoArrival)
            /\ UNCHANGED <<config, now, inbuf, withheld, session, non_ws_vars>>

SendPong ==
    /\ Idle
    /\ \E data \in PongInputs, w \in SendWrites :
            /\ Returned("send_pong", send_pong(Self, data, w.key, w.out), NoArrival)
            /\ UNCHANGED <<config, now, inbuf, withheld, session, non_ws_vars>>

Close ==
    /\ Idle
    /\ \E w \in SendWrites :
            /\ Returned("close", close(Self, w.key, w.out), NoArrival)
            /\ UNCHANGED <<config, now, inbuf, withheld, session, non_ws_vars>>

CloseCalls ==
    [code : CloseCodes, reason : CloseReasons, w : SendWrites]
        \cup [code : EdgeCodes, reason : { <<>> }, w : { AnyWrite }]

CloseWithCode ==
    /\ Idle
    /\ \E c \in CloseCalls :
            /\ ReturnedFrom("close_with_code",
                            close_with_code(Self, c.code, c.reason, c.w.key, c.w.out),
                            [Pre(NoArrival) EXCEPT !.code = c.code])
            /\ UNCHANGED <<config, now, inbuf, withheld, session, non_ws_vars>>

\* read_message writes the keepalive ping when it is due, and the pong when
\* a ping was read.
KeepaliveWrites == IF ~closed /\ keepalive_due(Self) THEN Writes ELSE { AnyWrite }

PongWrites(buf) ==
    LET f == read_frame(buf)
    IN  IF ~closed /\ f.ok /\ f.frame.opcode = OPCODE_PING THEN Writes ELSE { AnyWrite }

ReadMessage ==
    /\ Idle
    /\ \E a \in Arrivals : \E w1 \in KeepaliveWrites, w2 \in PongWrites(a.bytes) :
            LET x == read_message(Self, a.bytes, w1.key, w1.out, w2.key, w2.out)
            IN  /\ Returned("read_message", x, a)
                /\ inbuf' = x.rest
                /\ withheld' = a.later
                /\ UNCHANGED <<config, now, session, non_ws_vars>>

\* the caller takes the return value of the operation it called
Return ==
    /\ result.op # "none"
    /\ result' = NoResult /\ events' = <<>> /\ pre' = NoPre
    /\ UNCHANGED <<config, closed, last_ping, now, inbuf, withheld, closed_by,
                   close_frames, session, non_ws_vars>>

\* time passes between two calls
Tick ==
    /\ Idle
    /\ now < MaxTime
    /\ now' = now + 1
    /\ UNCHANGED <<config, closed, last_ping, inbuf, withheld, result, events, pre,
                   closed_by, close_frames, session, non_ws_vars>>

Next ==
    \/ Connect
    \/ SendText
    \/ SendBinary
    \/ SendPing
    \/ SendPong
    \/ Close
    \/ CloseWithCode
    \/ ReadMessage
    \/ Return
    \/ Tick

Spec == Init /\ [][Next]_vars

-----------------------------------------------------------------------------
(* parse_websocket_url applied to each URL of Urls.                        *)

\* the client's variables while no client is in use
WsOff ==
    /\ config = Config(LargeFrameSize, PingInterval)
    /\ closed = FALSE
    /\ now = 0
    /\ last_ping = 0
    /\ inbuf = <<>>
    /\ withheld = <<>>
    /\ result = NoResult
    /\ events = <<>>
    /\ pre = NoPre
    /\ closed_by = "none"
    /\ close_frames = NoCloseFrames
    /\ session = "new"

InitUrl ==
    /\ WsOff
    /\ EncOff
    /\ StatsOff
    /\ TimerOff
    /\ AppOff
    /\ url \in Urls
    /\ parsed = NotParsed

ParseUrl ==
    /\ parsed = NotParsed
    /\ parsed' = parse_websocket_url(url.text)
    /\ UNCHANGED <<url, ws_vars, enc_vars, main_vars, stats_vars, timer_vars>>

NextUrl == ParseUrl

SpecUrl == InitUrl /\ [][NextUrl]_vars

-----------------------------------------------------------------------------
(* send_frame on payloads around the limits of the three length forms,     *)
(* under the default max_frame_size.                                       *)

MAX_FRAME_SIZE == 16777216

\* lengths at both sides of the limits of the 7-bit and the 16-bit form
ShortLengths == { 0, 1, 125, 126, 127 }
LongLengths == { 65535, 65536 }

\* n bytes that differ from place to place
Pattern(n, seed) == [i \in 1..n |-> (7 * i + seed) % 256]

EncodeKeys == { <<0, 0, 0, 0>>, <<18, 52, 86, 120>>, <<255, 128, 1, 77>> }

Outgoing(opcode, payload, mask_key) ==
    [opcode |-> opcode, payload |-> payload, mask_key |-> mask_key]

\* send_text and send_binary send any payload, send_ping and send_pong at
\* most 125 bytes, close_with_code a code and at most 123 bytes
Outgoings ==
    { Outgoing(op, Pattern(n, seed), key) :
        op \in {OPCODE_TEXT, OPCODE_BINARY}, n \in ShortLengths,
        seed \in {0, 200}, key \in EncodeKeys }
        \cup
    { Outgoing(op, Pattern(n, 0), key) :
        op \in {OPCODE_TEXT, OPCODE_BINARY}, n \in LongLengths, key \in EncodeKeys }
        \cup
    { Outgoing(op, Pattern(n, seed), key) :
        op \in {OPCODE_CLOSE, OPCODE_PING, OPCODE_PONG}, n \in {0, 2, MaxControlPayload},
        seed \in {0, 200}, key \in EncodeKeys }

InitEncode ==
    /\ UrlOff
    /\ StatsOff
    /\ TimerOff
    /\ AppOff
    /\ outgoing \in Outgoings
    /\ config = Config(MAX_FRAME_SIZE, PingInterval)
    /\ closed = FALSE
    /\ now = 0
    /\ last_ping = 0
    /\ inbuf = <<>>
    /\ withheld = <<>>
    /\ result = NoResult
    /\ events = <<>>
    /\ pre = NoPre
    /\ closed_by = "none"
    /\ close_frames = NoCloseFrames
    /\ session = "open"

SendFrame ==
    /\ Idle
    /\ LET x == send_frame(Self, outgoing.opcode, outgoing.payload, outgoing.mask_key, "ok")
       IN  /\ result' = Called("send_frame", x.r)
           /\ events' = x.ev
    /\ UNCHANGED <<config, closed, last_ping, now, inbuf, withheld, pre, closed_by,
                   close_frames, session,
                   non_ws_vars>>

NextEncode == SendFrame

SpecEncode == InitEncode /\ [][NextEncode]_vars

-----------------------------------------------------------------------------
(* LatencyStats (latency.rs).  u64 additions panic on overflow in a build  *)
(* with overflow checks and wrap in one without.                           *)

WindowCapacity == 10

\* an f64 a query returns: the quotient num / den / 1e6 of two integers
\* (den > 0), or NaN
F64(num, den) == [nan |-> FALSE, num |-> num, den |-> den]
NaN == [nan |-> TRUE, num |-> U64(0), den |-> 0]

\* 0.0
Zero == F64(U64(0), 1)

\* iter().sum() of u64 from element i on, added to acc: [sum, overflow]
RECURSIVE SumFrom(_, _, _, _)
SumFrom(xs, i, acc, overflowed) ==
    IF i > Len(xs) THEN [sum |-> acc, overflow |-> overflowed]
    ELSE LET t == U64Add(acc, xs[i])
         IN  SumFrom(xs, i + 1, t.sum, overflowed \/ t.overflow)

SumU64(xs) == SumFrom(xs, 1, U64(0), FALSE)

\* add_measurement that evicts only once the window holds more than 10
add_measurement_evict_late(st, latency_ns, b) ==
    LET t == U64Add(st.total_latency_ns, latency_ns)
        window == IF Len(st.last_10) > WindowCapacity THEN Tail(st.last_10)
                  ELSE st.last_10
    IN  IF t.overflow /\ b = "debug"
        THEN [st |-> [st EXCEPT !.count = st.count + 1], panic |-> TRUE]
        ELSE [st |-> [count |-> st.count + 1,
                      total_latency_ns |-> t.sum,
                      min_latency_ns |-> U64Min(st.min_latency_ns, latency_ns),
                      max_latency_ns |-> U64Maxi(st.max_latency_ns, latency_ns),
                      last_10 |-> Append(window, latency_ns)],
              panic |-> FALSE]

\* add_measurement: [st, panic]; on a panic st is the record as the
\* unwinding leaves it (count incremented, nothing else)
add_measurement(st, latency_ns, b) ==
    LET t == U64Add(st.total_latency_ns, latency_ns)
        window == IF Len(st.last_10) >= WindowCapacity THEN Tail(st.last_10)
                  ELSE st.last_10
    IN  IF t.overflow /\ b = "debug"
        THEN [st |-> [st EXCEPT !.count = st.count + 1], panic |-> TRUE]
        ELSE [st |-> [count |-> st.count + 1,
                      total_latency_ns |-> t.sum,
                      min_latency_ns |-> U64Min(st.min_latency_ns, latency_ns),
                      max_latency_ns |-> U64Maxi(st.max_latency_ns, latency_ns),
                      last_10 |-> Append(window, latency_ns)],
              panic |-> FALSE]

\* average_latency_ms without the test for count == 0: 0.0 / 0.0 is NaN
average_latency_ms_unguarded(st) ==
    IF st.count = 0 THEN NaN ELSE F64(st.total_latency_ns, st.count)

average_latency_ms(st) ==
    IF st.count = 0 THEN Zero ELSE F64(st.total_latency_ns, st.count)

\* recent_average_ms: [v, panic]
recent_average_ms(st, b) ==
    IF st.last_10 = <<>> THEN [v |-> Zero, panic |-> FALSE]
    ELSE LET sum == SumU64(st.last_10)
         IN  IF sum.overflow /\ b = "debug" THEN [v |-> NaN, panic |-> TRUE]
             ELSE [v |-> F64(sum.sum, Len(st.last_10)), panic |-> FALSE]

min_latency_ms(st) == F64(st.min_latency_ns, 1)

max_latency_ms(st) == F64(st.max_latency_ns, 1)

\* latencies add_measurement is given
Latencies ==
    { U64(3), U64(70000) }
        \cup (IF Cardinality({ i \in 1..Len(samples) : samples[i] = U64_MAX }) < MaxHuge
              THEN { U64_MAX } ELSE {})

InitStats ==
    /\ WsOff
    /\ UrlOff
    /\ EncOff
    /\ TimerOff
    /\ AppOff
    /\ stats = LatencyStats_new
    /\ samples = <<>>
    /\ answers = NoAnswers
    /\ build \in {"debug", "release"}
    /\ panicked = FALSE

AddMeasurement ==
    /\ ~panicked
    /\ Len(samples) < MaxSamples
    /\ \E latency_ns \in Latencies :
            LET x == add_measurement(stats, latency_ns, build)
            IN  /\ stats' = x.st
                /\ panicked' = x.panic
                /\ samples' = IF x.panic THEN samples ELSE Append(samples, latency_ns)
    /\ answers' = NoAnswers
    /\ UNCHANGED <<build, ws_vars, url_vars, enc_vars, main_vars, timer_vars>>

\* the statistics printout asks the four queries
Query ==
    /\ ~panicked
    /\ ~answers.asked
    /\ LET recent == recent_average_ms(stats, build)
       IN  /\ panicked' = recent.panic
           /\ answers' =
                IF recent.panic THEN NoAnswers
                ELSE [asked |-> TRUE,
                      average |-> average_latency_ms(stats),
                      recent |-> recent.v,
                      min |-> min_latency_ms(stats),
                      max |-> max_latency_ms(stats)]
    /\ UNCHANGED <<stats, samples, build, ws_vars, url_vars, enc_vars, main_vars, timer_vars>>

NextStats == AddMeasurement \/ Query

SpecStats == InitStats /\ [][NextStats]_vars

-----------------------------------------------------------------------------
(* HIGH_RES_TIMER (latency.rs): a OnceLock<HighResTimer> that threads      *)
(* initialise through get_or_init on their first reading of the clock.     *)

\* What a caller of get_or_init does on finding the cell in a state:
\* read the value of a complete cell; run the initialiser on an incomplete
\* one (which marks the cell as running); wait while another thread runs it.
\* Without the exclusion every caller that finds no value runs it.
call_once_unlocked(state) ==
    IF state = "complete" THEN "read" ELSE "run"

call_once(state) ==
    CASE state = "complete"   -> "read"
      [] state = "incomplete" -> "run"
      [] OTHER                -> "wait"

\* HighResTimer::now_ns where the record holds an Instant (every target but
\* x86_64, where the two definitions of rdtsc do not compile):
\* start_time.elapsed() is the monotonic clock's reading less start_time.
\* The sum passes u64::MAX in the year 2554 and is taken as an integer.
\* now_ns reading the system clock instead
now_ns_system_time(self) == clock

now_ns(self) ==
    LET elapsed == now - self.start_time
    IN  self.start_time_ns + elapsed

\* the client's variables but the monotonic clock
ws_but_now ==
    <<config, closed, last_ping, inbuf, withheld, result, events, pre, closed_by,
      close_frames, session>>

InitTimer ==
    /\ WsOff
    /\ UrlOff
    /\ EncOff
    /\ StatsOff
    /\ AppOff
    /\ cell = OnceLock_new
    /\ threads = [t \in Threads |-> NewThread]
    /\ calibrations = 0
    /\ clock = 0

\* get_high_res_time_ns is called: HIGH_RES_TIMER.get_or_init(...); when the
\* thread is to run HighResTimer::new it reads the system time first
GetOrInit(t) ==
    /\ threads[t].pc = "idle"
    /\ threads[t].calls < MaxCalls
    /\ LET todo == call_once(cell.state)
       IN  /\ threads' = [threads EXCEPT
                ![t].calls = @ + 1,
                ![t].pc = CASE todo = "read" -> "now_ns"
                            [] todo = "run"  -> "calibrating"
                            [] OTHER         -> "waiting",
                ![t].waited = (todo = "wait"),
                ![t].start_time_ns = IF todo = "run" THEN clock ELSE @]
           /\ cell' = IF todo = "run" THEN [cell EXCEPT !.state = "running"] ELSE cell
           /\ calibrations' = IF todo = "run" THEN calibrations + 1 ELSE calibrations
    /\ UNCHANGED <<clock, ws_vars, url_vars, enc_vars, main_vars, stats_vars>>

\* HighResTimer::new returns its record and get_or_init stores it
Calibrated(t) ==
    /\ threads[t].pc = "calibrating"
    /\ cell' = [state |-> "complete",
                value |-> [start_time_ns |-> threads[t].start_time_ns,
                           start_time |-> now]]
    /\ threads' = [threads EXCEPT ![t].pc = "now_ns"]
    /\ UNCHANGED <<calibrations, clock, ws_vars, url_vars, enc_vars, main_vars, stats_vars>>

\* a waiting caller is woken once the cell is complete
Woken(t) ==
    /\ threads[t].pc = "waiting"
    /\ cell.state = "complete"
    /\ threads' = [threads EXCEPT ![t].pc = "now_ns"]
    /\ UNCHANGED <<cell, calibrations, clock, ws_vars, url_vars, enc_vars, main_vars, stats_vars>>

\* the greatest value any call has returned
LastReading ==
    LET rs == { threads[u].read : u \in Threads }
    IN  CHOOSE r \in rs : \A q \in rs : q <= r

\* timer.now_ns() on the record get_or_init returned; `before` keeps the
\* greatest value returned before this call
NowNs(t) ==
    /\ threads[t].pc = "now_ns"
    /\ threads' = [threads EXCEPT ![t].pc = "idle", ![t].timer = cell.value,
                                  ![t].read = now_ns(cell.value),
                                  ![t].before = LastReading]
    /\ UNCHANGED <<cell, calibrations, clock, ws_vars, url_vars, enc_vars, main_vars, stats_vars>>

\* time passes: on the monotonic clock and on the system clock
ClockTick ==
    /\ now < MaxClock
    /\ now' = now + 1
    /\ clock' = clock + 1
    /\ UNCHANGED <<cell, threads, calibrations, ws_but_now, url_vars, enc_vars, main_vars, stats_vars>>

\* the system clock is set back
ClockSetBack ==
    /\ clock > 0
    /\ clock' = clock - 1
    /\ UNCHANGED <<cell, threads, calibrations, ws_vars, url_vars, enc_vars, main_vars, stats_vars>>

NextTimer ==
    \/ \E t \in Threads : GetOrInit(t)
    \/ \E t \in Threads : Calibrated(t)
    \/ \E t \in Threads : Woken(t)
    \/ \E t \in Threads : NowNs(t)
    \/ ClockTick
    \/ ClockSetBack

SpecTimer == InitTimer /\ [][NextTimer]_vars

-----------------------------------------------------------------------------
(* main (main.rs): connect, subscribe to the order book, then read        *)
(* messages and take a latency sample from each order-book update until   *)
(* the loop breaks.                                                       *)

MainMaxFrameSize == 1048576
MainPingInterval == 30
NsPerMs == 1000000

\* "wss://ws.okx.com:8443/ws/v5/public"
OkxUrl ==
    <<119, 115, 115, 58, 47, 47, 119, 115, 46, 111, 107, 120, 46, 99, 111,
      109, 58, 56, 52, 52, 51, 47, 119, 115, 47, 118, 53, 47, 112, 117, 98,
      108, 105, 99>>

\* the subscription request main sends, a JSON text of 10 lines
orderbook_subscribe ==
    <<123, 10, 32, 32, 32, 32, 32, 32, 32, 32, 34, 111, 112, 34, 58, 32,
      34, 115, 117, 98, 115, 99, 114, 105, 98, 101, 34, 44, 10, 32, 32, 32,
      32, 32, 32, 32, 32, 34, 97, 114, 103, 115, 34, 58, 32, 91, 10, 32,
      32, 32, 32, 32, 32, 32, 32, 32, 32, 32, 32, 123, 10, 32, 32, 32, 32,
      32, 32, 32, 32, 32, 32, 32, 32, 32, 32, 32, 32, 34, 99, 104, 97, 110,
      110, 101, 108, 34, 58, 32, 34, 98, 111, 111, 107, 115, 53, 34, 44,
      10, 32, 32, 32, 32, 32, 32, 32, 32, 32, 32, 32, 32, 32, 32, 32, 32,
      34, 105, 110, 115, 116, 73, 100, 34, 58, 32, 34, 66, 84, 67, 45, 85,
      83, 68, 84, 34, 10, 32, 32, 32, 32, 32, 32, 32, 32, 32, 32, 32, 32,
      125, 10, 32, 32, 32, 32, 32, 32, 32, 32, 93, 10, 32, 32, 32, 32, 125>>

\* b"latency-test"
LatencyTest == <<108, 97, 116, 101, 110, 99, 121, 45, 116, 101, 115, 116>>

EventSubscribe == <<34, 101, 118, 101, 110, 116, 34, 58, 34, 115, 117, 98, 115, 99, 114, 105, 98, 101, 34>>   \* "event":"subscribe"
ChannelBooks5 == <<34, 99, 104, 97, 110, 110, 101, 108, 34, 58, 34, 98, 111, 111, 107,
      115, 53, 34>>   \* "channel":"books5"
DataOpen == <<34, 100, 97, 116, 97, 34, 58, 91>>   \* "data":[
TsKey == <<34, 116, 115, 34, 58, 34>>   \* "ts":"
Quote == <<34>>

\* the digits of a u64 from digit i on, added to acc: the value, or None
\* on a byte that is no digit and on a value above u64::MAX
RECURSIVE parse_u64_from(_, _, _)
parse_u64_from(digits, i, acc) ==
    IF i > Len(digits) THEN [some |-> TRUE, v |-> acc]
    ELSE IF ~IsDigit(digits[i]) THEN [some |-> FALSE, v |-> U64(0)]
    ELSE LET m == U64Mul(acc, 10)
             t == U64Add(m.product, U64(digits[i] - 48))
         IN  IF m.overflow \/ t.overflow THEN [some |-> FALSE, v |-> U64(0)]
             ELSE parse_u64_from(digits, i + 1, t.sum)

\* str::parse::<u64>().ok(): one optional '+', then at least one digit
parse_u64(str) ==
    LET digits == IF str # <<>> /\ str[1] = 43 THEN Tail(str) ELSE str
    IN  IF digits = <<>> THEN [some |-> FALSE, v |-> U64(0)]
        ELSE parse_u64_from(digits, 1, U64(0))

\* extract_timestamp_from_message: the number between the first "ts":" and
\* the next quote
extract_timestamp_from_message(text) ==
    LET start == Find(text, TsKey)
        start_pos == start + 6
        end == Find(Drop(text, start_pos - 1), Quote)
    IN  IF start = 0 THEN [some |-> FALSE, v |-> U64(0)]
        ELSE IF end = 0 THEN [some |-> FALSE, v |-> U64(0)]
        ELSE parse_u64(SubSeq(text, start_pos, start_pos + end - 2))

\* the Text arm of the loop taking the latency against the time of arrival
\* less one millisecond per millisecond of the timestamp
text_arm_unscaled(st, text, receive_time_ns, b) ==
    IF Contains(text, EventSubscribe) /\ Contains(text, ChannelBooks5)
    THEN [st |-> st, panic |-> FALSE, sample |-> <<>>]
    ELSE IF Contains(text, ChannelBooks5) /\ Contains(text, DataOpen)
    THEN LET exchange_timestamp_ms == extract_timestamp_from_message(text)
         IN  IF ~exchange_timestamp_ms.some
             THEN [st |-> st, panic |-> FALSE, sample |-> <<>>]
             ELSE LET latency_ns == saturating_sub(receive_time_ns, exchange_timestamp_ms.v)
                      x == add_measurement(st, latency_ns, b)
                  IN  [st |-> x.st, panic |-> x.panic, sample |-> << latency_ns >>]
    ELSE [st |-> st, panic |-> FALSE, sample |-> <<>>]

\* the Text arm of the loop (main.rs:52-81): [st, panic, sample]; sample is
\* what add_measurement was called with, if it was called
text_arm(st, text, receive_time_ns, b) ==
    IF Contains(text, EventSubscribe) /\ Contains(text, ChannelBooks5)
    THEN [st |-> st, panic |-> FALSE, sample |-> <<>>]
    ELSE IF Contains(text, ChannelBooks5) /\ Contains(text, DataOpen)
    THEN LET exchange_timestamp_ms == extract_timestamp_from_message(text)
         IN  IF ~exchange_timestamp_ms.some
             THEN [st |-> st, panic |-> FALSE, sample |-> <<>>]
             ELSE LET exchange_timestamp_ns == U64Mul(exchange_timestamp_ms.v, NsPerMs)
                  IN  IF exchange_timestamp_ns.overflow /\ b = "debug"
                      THEN [st |-> st, panic |-> TRUE, sample |-> <<>>]
                      ELSE LET latency_ns == saturating_sub(receive_time_ns,
                                                            exchange_timestamp_ns.product)
                               x == add_measurement(st, latency_ns, b)
                           IN  [st |-> x.st, panic |-> x.panic, sample |-> << latency_ns >>]
    ELSE [st |-> st, panic |-> FALSE, sample |-> <<>>]

\* the loop going round again after a read error
loop_arm_retry(r, ping) ==
    IF r.ok
    THEN IF r.msg.kind = "Close" THEN "break" ELSE "continue"
    ELSE IF r.err = "Timeout"
    THEN IF ping.ok THEN "continue" ELSE "break"
    ELSE "continue"

\* what the loop does with the result of read_message (main.rs:48-134);
\* ping is what send_ping returns in the Timeout arm
loop_arm(r, ping) ==
    IF r.ok
    THEN IF r.msg.kind = "Close" THEN "break" ELSE "continue"
    ELSE IF r.err = "Timeout"
    THEN IF ping.ok THEN "continue" ELSE "break"
    ELSE "break"

\* The texts the exchange sends, each with what it is: a subscription
\* confirmation, an order-book update with or without a timestamp, another
\* text; ts_ms is the timestamp where it is a small number.
MarketText(kind, ts, ts_ms, text) == [kind |-> kind, ts |-> ts, ts_ms |-> ts_ms, text |-> text]

\* {"arg":{"channel":"books5"},"data":[{"ts":"<digits>"}]}
DataText(digits) ==
    <<123, 34, 97, 114, 103, 34, 58, 123, 34, 99, 104, 97, 110, 110, 101,
      108, 34, 58, 34, 98, 111, 111, 107, 115, 53, 34, 125, 44, 34, 100,
      97, 116, 97, 34, 58, 91, 123, 34, 116, 115, 34, 58, 34>>
        \o digits \o <<34, 125, 93, 125>>

MarketTexts ==
    { \* {"event":"subscribe","arg":{"channel":"books5"}}
      MarketText("confirmation", "none", 0,
    <<123, 34, 101, 118, 101, 110, 116, 34, 58, 34, 115, 117, 98, 115, 99,
      114, 105, 98, 101, 34, 44, 34, 97, 114, 103, 34, 58, 123, 34, 99,
      104, 97, 110, 110, 101, 108, 34, 58, 34, 98, 111, 111, 107, 115, 53,
      34, 125, 125>>),
      \* "ts":"3", "ts":"5", "ts":"9"
      MarketText("update", "small", 3, DataText(<<51>>)),
      MarketText("update", "small", 5, DataText(<<53>>)),
      MarketText("update", "small", 9, DataText(<<57>>)),
      \* "ts":"18446744073709": times a million still a u64
      MarketText("update", "late", 0,
                 DataText(<<49, 56, 52, 52, 54, 55, 52, 52, 48, 55, 51, 55, 48, 57>>)),
      \* "ts":"18446744073710": times a million above u64::MAX
      MarketText("update", "huge", 0,
                 DataText(<<49, 56, 52, 52, 54, 55, 52, 52, 48, 55, 51, 55, 49, 48>>)),
      \* "ts":"99999999999999999999": no u64
      MarketText("update", "none", 0,
                 DataText(<<57, 57, 57, 57, 57, 57, 57, 57, 57, 57, 57, 57, 57, 57, 57, 57, 57, 57, 57, 57>>)),
      \* "ts":"soon"
      MarketText("update", "none", 0, DataText(<<115, 111, 111, 110>>)),
      \* {"arg":{"channel":"books5"},"data":[{}]}
      MarketText("update", "none", 0,
    <<123, 34, 97, 114, 103, 34, 58, 123, 34, 99, 104, 97, 110, 110, 101,
      108, 34, 58, 34, 98, 111, 111, 107, 115, 53, 34, 125, 44, 34, 100,
      97, 116, 97, 34, 58, 91, 123, 125, 93, 125>>),
      \* {"event":"error"}
      MarketText("other", "none", 0, <<123, 34, 101, 118, 101, 110, 116, 34, 58, 34, 101, 114, 114, 111, 114, 34, 125>>) }

\* what current_timestamp_ns_hires returns on arrival, in nanoseconds
ReceiveTimes == { 5000000, 9000001 }

\* What a read_message of the loop meets: a text of the exchange; a binary,
\* ping, pong or close frame; a frame read_message rejects; nothing within
\* the read timeout.
MarketFrame(kind, ts, ts_ms, opcode, masked, payload) ==
    [kind |-> kind, ts |-> ts, ts_ms |-> ts_ms,
     frame |-> PeerFrame(TRUE, 0, opcode, masked, ShortestForm(Len(payload)),
                         U64(Len(payload)), payload, 0)]

MarketFrames ==
    { MarketFrame(t.kind, t.ts, t.ts_ms, OPCODE_TEXT, FALSE, t.text) : t \in MarketTexts }
        \cup
    { MarketFrame("binary", "none", 0, OPCODE_BINARY, FALSE, <<0, 255>>),
      MarketFrame("ping", "none", 0, OPCODE_PING, FALSE, <<112>>),
      MarketFrame("pong", "none", 0, OPCODE_PONG, FALSE, <<112>>),
      MarketFrame("close", "none", 0, OPCODE_CLOSE, FALSE, <<3, 232>>),
      MarketFrame("bad", "none", 0, OPCODE_TEXT, TRUE, <<65>>),
      MarketFrame("bad", "none", 0, OPCODE_TEXT, FALSE, <<195>>),
      MarketFrame("bad", "none", 0, 3, FALSE, <<65>>) }

InitMain ==
    /\ UrlOff
    /\ EncOff
    /\ TimerOff
    /\ AppOff
    /\ stats = LatencyStats_new
    /\ samples = <<>>
    /\ answers = NoAnswers
    /\ build \in {"debug", "release"}
    /\ panicked = FALSE
    /\ config = Config(MainMaxFrameSize, MainPingInterval)
    /\ closed = FALSE
    /\ now = 0
    /\ last_ping = 0
    /\ inbuf = <<>>
    /\ withheld = <<>>
    /\ result = NoResult
    /\ events = <<>>
    /\ pre = NoPre
    /\ closed_by = "none"
    /\ close_frames = NoCloseFrames
    /\ session = "new"

\* what the connect of main meets
MainCalls ==
    { ConnectCall(OkxUrl, net, GoodKey, out, resp) :
        net \in NetOutcomes, out \in WriteOutcomes, resp \in { GoodResponse, NoResponse } }

\* WebSocketClient::connect_with_config(...)?: main returns the error
MainConnect ==
    /\ app.pc = "start"
    /\ \E c \in MainCalls :
            LET x == connect_with_config(c.url, c.net, c.key, c.out, c.resp)
            IN  /\ session' = IF x.r.ok THEN "open" ELSE "failed"
                /\ result' = Called("connect", x.r)
                /\ events' = x.ev
                /\ pre' = [NoPre EXCEPT !.call = c]
                /\ last_ping' = now
                /\ closed' = FALSE
                /\ inbuf' = IF x.r.ok
                            THEN BufReader_dropped(c.early.sent, c.early.ahead)
                            ELSE <<>>
                /\ app' = [app EXCEPT !.pc = IF x.r.ok THEN "subscribe" ELSE "ended",
                                      !.connects = @ + 1]
    /\ UNCHANGED <<config, now, withheld, closed_by, close_frames,
                   url_vars, enc_vars, stats_vars, timer_vars>>

\* client.send_text(orderbook_subscribe)?: main returns the error
MainSubscribe ==
    /\ app.pc = "subscribe"
    /\ \E w \in Writes :
            LET x == send_text(Self, orderbook_subscribe, w.key, w.out)
            IN  /\ Returned("send_text", x, NoArrival)
                /\ app' = [app EXCEPT !.pc = IF x.r.ok THEN "loop" ELSE "ended"]
    /\ UNCHANGED <<config, now, inbuf, withheld, session,
                   url_vars, enc_vars, stats_vars, timer_vars>>

\* nothing arrives within the read timeout
Silence == [kind |-> "silence", ts |-> "none", ts_ms |-> 0, frame |-> NoPeer]

\* the arm of the loop taken on what read_message returned (main.rs:48-134):
\* x is the read, ping what send_ping returns in the Timeout arm, text what
\* the Text arm does to the statistics
MainArm(m, t, a, x, ping, text) ==
    /\ Returned("read_message", x, a)
    /\ inbuf' = x.rest
    /\ stats' = text.st
    /\ samples' = samples \o text.sample
    /\ panicked' = text.panic
    /\ app' = [app EXCEPT
                !.pc = IF loop_arm(x.r, ping) = "break" \/ text.panic
                       THEN "ended" ELSE "loop",
                !.steps = @ + 1,
                !.last = [kind |-> m.kind, ts |-> m.ts, ts_ms |-> m.ts_ms,
                          receive_time |-> t,
                          samples_before |-> Len(samples),
                          count_before |-> stats.count]]

\* match client.read_message() on the result x of the read
MainMatch(m, t, w, a, x) ==
    MainArm(m, t, a, x,
            send_ping(x.s, LatencyTest, w.key, w.out).r,
            IF x.r.ok /\ x.r.msg.kind = "Text"
            THEN text_arm(stats, x.r.msg.payload, U64(t), build)
            ELSE [st |-> stats, panic |-> FALSE, sample |-> <<>>])

\* the bytes of what the read meets
MarketBytes(m) == IF m.kind = "silence" THEN <<>> ELSE PeerBytes(m.frame)

\* one round of the loop: read_message, then the arm of its result
MainRound(m, t, w, bytes) ==
    MainMatch(m, t, w, Arrival(m.kind # "silence", m.frame, bytes, <<>>),
              read_message(Self, bytes, w.key, w.out, w.key, w.out))

MainLoop ==
    /\ app.pc = "loop"
    /\ app.steps < MaxSteps
    /\ \E m \in MarketFrames \cup { Silence }, w \in Writes, t \in ReceiveTimes :
            /\ (m.frame.opcode = OPCODE_PING \/ w = AnyWrite)
            /\ (m.kind = "update" \/ t = 5000000)
            /\ MainRound(m, t, w, MarketBytes(m))
    /\ UNCHANGED <<config, now, withheld, session, answers, build,
                   url_vars, enc_vars, timer_vars>>

NextMain == MainConnect \/ MainSubscribe \/ MainLoop

SpecMain == InitMain /\ [][NextMain]_vars

-----------------------------------------------------------------------------
(* What the server finds in a frame the client wrote: the inverse of the   *)
(* layout send_frame builds, computed from the bytes alone.                *)

WireFin(bytes) == BitAnd(bytes[1], 128) # 0
WireOpcode(bytes) == BitAnd(bytes[1], 15)
WireMasked(bytes) == BitAnd(bytes[2], 128) # 0

\* where the mask key starts, after the 7-, 16- or 64-bit length
WireKeyAt(bytes) ==
    LET len7 == BitAnd(bytes[2], 127)
    IN  IF len7 < 126 THEN 3 ELSE IF len7 = 126 THEN 5 ELSE 11

WirePayload(bytes) ==
    LET k    == WireKeyAt(bytes)
        key  == SubSeq(bytes, k, k + 3)
        body == Drop(bytes, k + 3)
    IN  [i \in 1..Len(body) |-> BitXor(body[i], key[((i - 1) % 4) + 1])]

-----------------------------------------------------------------------------
(* The frame a read_message call found at the head of the transport.       *)

\* the call just returned is a read_message on an open connection that
\* started at the first header byte of a frame of the peer
ReadAtFrame == result.op = "read_message" /\ ~pre.closed /\ pre.at_frame

\* the header passes the checks of read_frame before the size limit
HeaderAccepted(f) ==
    /\ f.rsv = 0
    /\ ~f.masked
    /\ ~(f.form = 64 /\ f.declared[1] >= 128)

\* the length the header declares exceeds max_frame_size
DeclaredTooLarge(f) == U64Gt(f.declared, U64(config.max_frame_size))

\* all the bytes the header declares were sent and have arrived
Complete(f) == f.hold = 0 /\ f.declared = U64(Len(f.payload))

\* a frame read_frame returns: accepted header, within the size limit, whole
Decodable(f) == HeaderAccepted(f) /\ ~DeclaredTooLarge(f) /\ Complete(f)

\* the keepalive interval had elapsed when the call was made
WasDue == now - pre.last_ping > config.ping_interval

-----------------------------------------------------------------------------
(* Claims.                                                                 *)

\* C1: on a connection that is closing or closed (a local close succeeded
\* or a peer close frame was read) send_text, send_binary, send_ping and
\* send_pong return ConnectionClosed and write nothing; close and
\* close_with_code return success and write nothing.
C1_ClosedRejectsSends ==
    pre.closed =>
        /\ result.op \in {"send_text", "send_binary", "send_ping", "send_pong"}
              => ~result.ok /\ result.err = "ConnectionClosed" /\ events = <<>>
        /\ result.op \in {"close", "close_with_code"}
              => result.ok /\ events = <<>>

C1_Witness ==
    /\ pre.closed
    /\ result.op = "send_pong"
    /\ result.err = "ConnectionClosed"
    /\ closed_by = "peer"

\* C2: closed is terminal: once is_closed() is true it is true after every
\* later send, close and read_message call, and every read_message made in
\* that state fails with ConnectionClosed.
C2_ClosedTerminal ==
    /\ [][closed => closed']_vars
    /\ [](result.op = "read_message" /\ pre.closed
            => ~result.ok /\ result.err = "ConnectionClosed")

C2_Witness ==
    /\ pre.closed
    /\ closed
    /\ result.op = "read_message"
    /\ result.err = "ConnectionClosed"

\* C3: after a local close succeeded the connection is only Closing:
\* read_message still accepts the peer's close frame and returns it.
C3_ClosingReadsPeerClose ==
    (/\ result.op = "read_message"
     /\ pre.closed
     /\ closed_by = "local"
     /\ pre.at_frame
     /\ pre.frame.opcode = OPCODE_CLOSE
     /\ pre.frame.fin
     /\ Len(pre.frame.payload) <= MaxControlPayload
     /\ Decodable(pre.frame))
        => result.ok /\ result.msg.kind = "Close"

\* the close frame of the peer, decoded by read_message
ClosePayloadRead ==
    /\ ReadAtFrame
    /\ pre.frame.opcode = OPCODE_CLOSE
    /\ pre.frame.fin
    /\ Len(pre.frame.payload) <= MaxControlPayload
    /\ Decodable(pre.frame)

\* C4 as stated: a close frame read sets closed and returns Close with the
\* big-endian code of the first two payload bytes and, as the reason, the
\* remaining bytes; an empty payload gives no code and an empty reason.
C4_ReasonIsRemainingBytes ==
    ClosePayloadRead =>
        LET p == pre.frame.payload
        IN  /\ closed
            /\ result.ok /\ result.msg.kind = "Close"
            /\ Len(p) >= 2 => /\ result.msg.code = 256 * p[1] + p[2]
                              /\ result.msg.reason = Drop(p, 2)
            /\ Len(p) = 0 => result.msg.code = NoCode /\ result.msg.reason = <<>>

\* C4: a close frame read sets closed and returns Close with the big-endian
\* code of the first two payload bytes; the reason is the remaining bytes
\* when they are well-formed UTF-8, and otherwise a well-formed string that
\* differs from them (the lossy decoding); an empty payload gives no code
\* and an empty reason.
C4_CloseDecoded ==
    ClosePayloadRead =>
        LET p == pre.frame.payload
        IN  /\ closed
            /\ result.ok /\ result.msg.kind = "Close"
            /\ Len(p) >= 2 =>
                  /\ result.msg.code = 256 * p[1] + p[2]
                  /\ IF from_utf8_ok(Drop(p, 2))
                     THEN result.msg.reason = Drop(p, 2)
                     ELSE /\ result.msg.reason # Drop(p, 2)
                          /\ from_utf8_ok(result.msg.reason)
            /\ Len(p) = 0 => result.msg.code = NoCode /\ result.msg.reason = <<>>

C4_Witness ==
    /\ ClosePayloadRead
    /\ closed
    /\ result.msg.code = CLOSE_NORMAL
    /\ ~from_utf8_ok(Drop(pre.frame.payload, 2))

\* the last access of the call is the write of a pong frame with payload p
PongWritten(p) ==
    /\ events # <<>>
    /\ LET e == events[Len(events)]
       IN  /\ e.ev = "write"
           /\ WireFin(e.bytes)
           /\ WireMasked(e.bytes)
           /\ WireOpcode(e.bytes) = OPCODE_PONG
           /\ WirePayload(e.bytes) = p

\* C5: for every ping frame read on an open connection read_message gives
\* a pong frame with exactly the ping's payload to the transport before it
\* returns, and it returns Ping(payload) whether that write succeeded or not.
C5_PingAnswered ==
    /\ (/\ ReadAtFrame
        /\ pre.frame.opcode = OPCODE_PING
        /\ pre.frame.fin
        /\ Len(pre.frame.payload) <= MaxControlPayload
        /\ Decodable(pre.frame))
          => /\ result.ok
             /\ result.msg.kind = "Ping"
             /\ result.msg.payload = pre.frame.payload
    /\ (result.op = "read_message" /\ result.ok /\ result.msg.kind = "Ping")
          => PongWritten(result.msg.payload)

C5_Witness ==
    /\ ReadAtFrame
    /\ result.ok
    /\ result.msg.kind = "Ping"
    /\ Len(result.msg.payload) = MaxControlPayload
    /\ events[Len(events)].ev = "write"
    /\ events[Len(events)].how = "write_err"

\* the first access of the call is the write of the keepalive ping frame
PingWrittenFirst ==
    /\ events # <<>>
    /\ events[1].ev = "write"
    /\ WireOpcode(events[1].bytes) = OPCODE_PING
    /\ WirePayload(events[1].bytes) = KeepalivePayload

\* the access at position i is the read of the two header bytes of a frame
HeaderReadAt(i) ==
    /\ Len(events) >= i
    /\ events[i].ev = "read"
    /\ events[i].n = 2

\* C6 as stated: a read_message on an open connection made when the
\* keepalive interval has elapsed writes a ping frame before the frame
\* read, and the frame read is attempted whatever the write did.
C6_PingAlwaysWritten ==
    (result.op = "read_message" /\ ~pre.closed) =>
        IF WasDue
        THEN PingWrittenFirst /\ HeaderReadAt(2)
        ELSE HeaderReadAt(1)

\* C6: a read_message on an open connection made when the keepalive
\* interval has elapsed writes a ping frame before the frame read, unless
\* max_frame_size is below the length of the keepalive payload (then no
\* ping is written); the frame read is attempted whatever the keepalive
\* send did, and no ping is written when the interval has not elapsed.
C6_KeepaliveBeforeRead ==
    (result.op = "read_message" /\ ~pre.closed) =>
        IF WasDue /\ Len(KeepalivePayload) <= config.max_frame_size
        THEN PingWrittenFirst /\ HeaderReadAt(2)
        ELSE HeaderReadAt(1)

C6_Witness ==
    /\ result.op = "read_message"
    /\ ~pre.closed
    /\ WasDue
    /\ PingWrittenFirst
    /\ events[1].how = "write_err"
    /\ result.ok
    /\ result.msg.kind = "Text"

\* a control frame of the peer with FIN unset or more than 125 payload bytes
BadControlRead ==
    /\ ReadAtFrame
    /\ is_control_frame(pre.frame.opcode)
    /\ \/ ~pre.frame.fin
       \/ U64Gt(pre.frame.declared, U64(MaxControlPayload))

NoPayloadAccess ==
    \A i \in 1..Len(events) :
        /\ events[i].ev # "alloc"
        /\ events[i].ev = "read" => events[i].n \in {2, 8}

C9_MalformedHeaderRejected ==
    (ReadAtFrame /\ pre.frame.hold = 0 /\ ~HeaderAccepted(pre.frame))
        => /\ ~result.ok
           /\ result.err = "ProtocolError"
           /\ result.msg = NoMsg
           /\ ~closed

C9_Witness ==
    /\ ReadAtFrame
    /\ pre.frame.form = 64
    /\ pre.frame.declared[1] >= 128
    /\ pre.frame.rsv = 0
    /\ ~pre.frame.masked
    /\ result.err = "ProtocolError"

\* C10: a text or binary frame with FIN unset is never delivered to the
\* caller as a complete Text or Binary message.
C10_FragmentNotDelivered ==
    (ReadAtFrame /\ ~pre.frame.fin /\ pre.frame.opcode \in {OPCODE_TEXT, OPCODE_BINARY})
        => ~(result.ok /\ result.msg.kind \in {"Text", "Binary"})

\* the call just returned is a close_with_code on an open connection
CloseCodeCall == result.op = "close_with_code" /\ ~pre.closed

\* the code is one the spec lists as valid for a local close
ListedCloseCode(code) ==
    \/ code \in 1000..1003
    \/ code \in 1007..1011
    \/ code \in 3000..4999

\* C11: close_with_code on an open connection accepts exactly the codes
\* 1000-1003, 1007-1011 and 3000-4999; for any other code it returns
\* InvalidCloseCode, writes no frame and leaves the connection open.
C11_CloseCodeValidated ==
    CloseCodeCall =>
        /\ ~ListedCloseCode(pre.code)
              => /\ ~result.ok /\ result.err = "InvalidCloseCode"
                 /\ events = <<>>
                 /\ ~closed
        /\ ListedCloseCode(pre.code)
              => /\ result.err # "InvalidCloseCode"
                 /\ result.ok => /\ closed
                                 /\ Len(events) = 1
                                 /\ WireOpcode(events[1].bytes) = OPCODE_CLOSE
                                 /\ Take(WirePayload(events[1].bytes), 2)
                                        = to_be_bytes(pre.code, 2)

C11_Witness ==
    /\ CloseCodeCall
    /\ pre.code = 1005
    /\ result.err = "InvalidCloseCode"
    /\ ~closed

\* parse_websocket_url has returned for a URL written with "://"
ParsedBuilt == parsed # NotParsed /\ url.built

\* C13: parsing fails with a protocol error for every URL whose scheme is
\* not ws or wss, with or without an explicit port, and for every URL
\* without "://".
C13_OtherSchemesRejected ==
    parsed # NotParsed =>
        /\ (url.built /\ url.scheme \notin {WS, WSS})
              => ~parsed.ok /\ parsed.err = "ProtocolError"
        /\ Find(url.text, SchemeSep) = 0
              => ~parsed.ok /\ parsed.err = "ProtocolError"

\* C14: for a ws or wss URL the scheme is the text before "://", host and
\* port are split at the last ':' of the part before the first '/', the
\* port is 80 for ws and 443 for wss when none is given, the path is "/"
\* when the URL has none, and a port that is no 16-bit number is a
\* protocol error.
C14_UrlPartsRecovered ==
    (ParsedBuilt /\ url.scheme \in {WS, WSS}) =>
        IF url.port.given /\ url.port.value < 0
        THEN ~parsed.ok /\ parsed.err = "ProtocolError"
        ELSE /\ parsed.ok
             /\ parsed.scheme = url.scheme
             /\ parsed.host = url.host
             /\ parsed.port = (IF url.port.given THEN url.port.value
                               ELSE IF url.scheme = WS THEN 80 ELSE 443)
             /\ parsed.path = (IF url.path.given THEN url.path.text ELSE << Slash >>)

C14_Witness ==
    /\ ParsedBuilt
    /\ parsed.ok
    /\ url.scheme = WSS
    /\ Find(url.host, << Colon >>) # 0
    /\ url.port.value = 65535
    /\ Find(url.path.text, << Colon >>) # 0


-----------------------------------------------------------------------------
\* connect_with_config has returned from a call that reached the handshake
\* and whose request was written
HandshakeRun ==
    /\ result.op = "connect"
    /\ parse_websocket_url(pre.call.url).ok
    /\ pre.call.net = "ok"
    /\ pre.call.out = "ok"

\* the response's parts all validate, as the response was written
ResponseValid ==
    /\ pre.call.resp.status.valid
    /\ pre.call.resp.upgrade.valid
    /\ pre.call.resp.connection.valid
    /\ pre.call.resp.accept.valid

\* the status line and the header lines the call read
LinesRead == { i \in 1..Len(events) : events[i].ev = "read_line" }

\* the response could be read as far as the client wanted to read it
ResponseArrived ==
    /\ pre.call.resp.status.how # "stall"
    /\ pre.call.resp.status.valid => pre.call.resp.ending # "stall"

\* C12: connect returns a client only if the status line starts with
\* "HTTP/1.1 101" and the Upgrade, Connection and Sec-WebSocket-Accept headers
\* all validate; if the response arrived and any of these fails it returns a
\* handshake error; a failed connect leaves no client, so no operation on one
\* is ever called; the only bytes connect exchanges are the HTTP request and
\* the response lines; after a status line that is not 101 no header line is
\* read.
C12_HandshakeGatesSession ==
    /\ (result.op = "connect") => (session = "open" <=> result.ok)
    /\ session # "open" => result.op \in {"none", "connect"}
    /\ result.op = "connect" =>
        \A i \in 1..Len(events) :
            \/ events[i].ev = "read_line"
            \/ /\ i = 1
               /\ events[i].ev = "write"
               /\ events[i].bytes =
                    HandshakeRequest(parse_websocket_url(pre.call.url).host,
                                     parse_websocket_url(pre.call.url).path,
                                     pre.call.key)
    /\ HandshakeRun =>
        /\ result.ok => ResponseValid
        /\ (ResponseArrived /\ ~ResponseValid) => result.err = "HandshakeError"
        /\ (ResponseArrived /\ ResponseValid) => result.ok
        /\ (ResponseArrived /\ ~pre.call.resp.status.valid) => Cardinality(LinesRead) = 1

\* a 101 response with one header that does not validate was refused
C12_Witness ==
    /\ HandshakeRun
    /\ ResponseArrived
    /\ pre.call.resp.status.valid
    /\ pre.call.resp.upgrade.valid
    /\ pre.call.resp.accept.valid
    /\ pre.call.resp.connection.given
    /\ ~pre.call.resp.connection.valid
    /\ result.err = "HandshakeError"
    /\ session = "failed"
    /\ Cardinality(LinesRead) > 1


-----------------------------------------------------------------------------
\* a read of read_message found fewer bytes than it asked for before the
\* read timeout ran out
ReadTimedOut ==
    /\ result.op = "read_message"
    /\ \E i \in 1..Len(events) : events[i].ev = "read" /\ events[i].got < events[i].n

\* C15 (as stated; refuted): a read that exceeds the read timeout returns the
\* Timeout error to the caller.
C15_TimeoutSurfaced == ReadTimedOut => result.err = "Timeout"

-----------------------------------------------------------------------------
\* the access at position i is a write that failed, a read that came up
\* short, a read_line that failed
FailedWrite(i) == events[i].ev = "write" /\ events[i].how # "ok"
ShortRead(i) == events[i].ev = "read" /\ events[i].got < events[i].n
FailedLine(i) == events[i].ev = "read_line" /\ events[i].how # "ok"

\* the write at position i is the keepalive ping of read_message
KeepaliveAt(i) ==
    /\ result.op = "read_message"
    /\ WasDue
    /\ i = 1
    /\ WireOpcode(events[i].bytes) = OPCODE_PING
    /\ WirePayload(events[i].bytes) = KeepalivePayload

\* the write at position i is the pong read_message answers a ping with
PongAt(i) ==
    /\ result.op = "read_message"
    /\ result.msg.kind = "Ping"
    /\ i = Len(events)
    /\ WireOpcode(events[i].bytes) = OPCODE_PONG
    /\ WirePayload(events[i].bytes) = result.msg.payload

\* resolving, connecting and securing the stream worked for this URL
NetWorked ==
    \/ pre.call.net = "ok"
    \/ pre.call.net = "tls_err" /\ parse_websocket_url(pre.call.url).scheme # WSS

\* the frame found at the head of the transport can be delivered
Deliverable(f) ==
    /\ Decodable(f)
    /\ f.opcode \in {OPCODE_CONTINUATION, OPCODE_TEXT, OPCODE_BINARY, OPCODE_CLOSE,
                     OPCODE_PING, OPCODE_PONG}
    /\ is_control_frame(f.opcode) => f.fin /\ Len(f.payload) <= MaxControlPayload

\* C16: connect, the sends, the closes and read_message return success only
\* when nothing in them failed (a send or close on an open connection wrote
\* its frame and the write succeeded; connect parsed the URL, opened the
\* stream and every write and read of the handshake succeeded; read_message
\* found no closed connection, no short read and no frame it refuses), except
\* that read_message may return success after a failed write of its
\* keepalive ping or of the pong it answers a ping with, and of nothing else.
C16_FailuresReturned ==
    /\ result.op \in {"send_text", "send_binary", "send_ping", "send_pong"} =>
          (result.ok => ~pre.closed /\ Len(events) = 1 /\ ~FailedWrite(1))
    /\ result.op \in {"close", "close_with_code"} =>
          (result.ok => pre.closed \/ (Len(events) = 1 /\ ~FailedWrite(1)))
    /\ result.op = "close_with_code" /\ ~pre.closed /\ ~ListedCloseCode(pre.code)
          => ~result.ok
    /\ result.op = "connect" =>
          (result.ok =>
              /\ parse_websocket_url(pre.call.url).ok
              /\ NetWorked
              /\ \A i \in 1..Len(events) : ~FailedWrite(i) /\ ~FailedLine(i))
    /\ result.op = "read_message" =>
          /\ result.ok =>
                /\ ~pre.closed
                /\ \A i \in 1..Len(events) : ~ShortRead(i)
                /\ pre.at_frame => Deliverable(pre.frame)
          /\ \A i \in 1..Len(events) : FailedWrite(i) => KeepaliveAt(i) \/ PongAt(i)

\* one read_message returned a ping although the write of its keepalive ping
\* and the write of the pong both failed
C16_Witness ==
    /\ result.op = "read_message"
    /\ result.ok
    /\ Len(events) >= 3
    /\ FailedWrite(1) /\ KeepaliveAt(1)
    /\ FailedWrite(Len(events)) /\ PongAt(Len(events))

-----------------------------------------------------------------------------
\* the payload length a receiver reads from the header of a frame: the low 7
\* bits of the second byte, or after the escape 126 the next 2 bytes, or
\* after the escape 127 the next 8 bytes, big-endian
WireLen(bytes) ==
    LET len7 == BitAnd(bytes[2], 127)
    IN  IF len7 < 126 THEN len7
        ELSE IF len7 = 126 THEN from_be_bytes(SubSeq(bytes, 3, 4))
        ELSE from_be_bytes(SubSeq(bytes, 3, 10))

WireRsv(bytes) == BitAnd(bytes[1], 112)

\* send_frame has returned from writing the frame it was given
FrameSent == result.op = "send_frame" /\ Len(events) = 1 /\ events[1].ev = "write"

\* C17: a frame send_frame writes has FIN and the mask bit set and the
\* reserved bits clear; a payload below 126 bytes has its length in the 7
\* bits, one below 65536 bytes the escape 126 and a 16-bit big-endian length,
\* a longer one the escape 127 and a 64-bit big-endian length; the mask key
\* follows the length; decoding the header and unmasking the payload gives
\* back the opcode, the length and the payload.
C17_ShortestFormRoundTrip ==
    result.op = "send_frame" =>
        /\ result.ok
        /\ FrameSent
        /\ LET b == events[1].bytes
               n == Len(outgoing.payload)
               len7 == BitAnd(b[2], 127)
           IN  /\ WireFin(b)
               /\ WireRsv(b) = 0
               /\ WireMasked(b)
               /\ n < 126 => len7 = n /\ Len(b) = 2 + 4 + n
               /\ (n >= 126 /\ n < 65536) =>
                     /\ len7 = 126
                     /\ b[3] = n \div 256 /\ b[4] = n % 256
                     /\ Len(b) = 4 + 4 + n
               /\ n >= 65536 =>
                     /\ len7 = 127
                     /\ SubSeq(b, 3, 10) = U64(n)
                     /\ Len(b) = 10 + 4 + n
               /\ SubSeq(b, WireKeyAt(b), WireKeyAt(b) + 3) = outgoing.mask_key
               /\ WireOpcode(b) = outgoing.opcode
               /\ WireLen(b) = n
               /\ WirePayload(b) = outgoing.payload

\* a payload of 65536 bytes went out under a mask key that changes it
C17_Witness ==
    /\ FrameSent
    /\ Len(outgoing.payload) = 65536
    /\ outgoing.mask_key = <<18, 52, 86, 120>>
    /\ BitAnd(events[1].bytes[2], 127) = 127
    /\ Len(events[1].bytes) = 65550

-----------------------------------------------------------------------------
\* the last n elements of a sequence
LastOf(xs, n) == IF Len(xs) <= n THEN xs ELSE SubSeq(xs, Len(xs) - n + 1, Len(xs))

\* x is the least (greatest) of the values in xs
LeastOf(x, xs) ==
    /\ \E i \in 1..Len(xs) : xs[i] = x
    /\ \A i \in 1..Len(xs) : ~U64Gt(x, xs[i])
GreatestOf(x, xs) ==
    /\ \E i \in 1..Len(xs) : xs[i] = x
    /\ \A i \in 1..Len(xs) : ~U64Gt(xs[i], x)

\* C18: after n calls of add_measurement have returned, count is n, last_10
\* holds the last min(n, 10) samples in the order they came, and min and max
\* are the least and the greatest of all n samples.
C18_WindowAndExtremes ==
    ~panicked =>
        /\ stats.count = Len(samples)
        /\ stats.last_10 = LastOf(samples, WindowCapacity)
        /\ Len(stats.last_10) <= WindowCapacity
        /\ samples # <<>> =>
              /\ LeastOf(stats.min_latency_ns, samples)
              /\ GreatestOf(stats.max_latency_ns, samples)

\* eleven samples are in, the first was evicted and it alone is the minimum
C18_Witness ==
    /\ ~panicked
    /\ Len(samples) = WindowCapacity + 1
    /\ stats.count = WindowCapacity + 1
    /\ Len(stats.last_10) = WindowCapacity
    /\ samples[1] = U64(3)
    /\ \A i \in 1..WindowCapacity : stats.last_10[i] = U64(70000)
    /\ stats.min_latency_ns = U64(3)

\* C19: asked of an aggregator without samples, the four queries all return
\* a number; the average and the recent average are 0.0 (the maximum is 0.0,
\* the minimum is u64::MAX nanoseconds in milliseconds).
C19_EmptyQueriesAnswered ==
    /\ (samples = <<>> /\ ~panicked /\ answers.asked) =>
          /\ answers.average = Zero
          /\ answers.recent = Zero
          /\ ~answers.min.nan /\ answers.min = F64(U64_MAX, 1)
          /\ ~answers.max.nan /\ answers.max = Zero
    /\ samples = <<>> => ~panicked

C19_Witness ==
    /\ stats = LatencyStats_new
    /\ samples = <<>>
    /\ answers.asked
    /\ answers.average = Zero

-----------------------------------------------------------------------------
\* thread t has got a record from get_or_init
HasTimer(t) == threads[t].timer # NoRecord

\* C20: HighResTimer::new is entered at most once, and exactly once as soon
\* as any thread has called the clock; every thread that got a record, the
\* ones that waited for the calibration of another included, got the record
\* the cell holds; and a complete cell never changes.
C20_CalibratedOnce ==
    /\ [](/\ calibrations <= 1
          /\ (\E t \in Threads : threads[t].calls > 0) => calibrations = 1
          /\ \A t \in Threads :
                HasTimer(t) => cell.state = "complete" /\ threads[t].timer = cell.value
          /\ \A t, u \in Threads :
                (HasTimer(t) /\ HasTimer(u)) => threads[t].timer = threads[u].timer)
    /\ [][cell.state = "complete" => cell' = cell]_vars

\* the three threads raced for the first reading: one calibrated (while the
\* clock moved on), two waited, and all three hold the one record
C20_Witness ==
    /\ calibrations = 1
    /\ \A t \in Threads : HasTimer(t) /\ threads[t].calls = 1
    /\ Cardinality({ t \in Threads : threads[t].waited }) = 2
    /\ cell.value.start_time_ns # cell.value.start_time

-----------------------------------------------------------------------------
\* C24 (as stated; refuted): the cumulative sum is the arithmetic sum of all
\* the samples given, no addition passes u64::MAX, and add_measurement never
\* fails.
C24_SumNeverOverflows ==
    /\ ~panicked
    /\ ~SumU64(samples).overflow
    /\ stats.total_latency_ns = SumU64(samples).sum

-----------------------------------------------------------------------------
\* the call just returned is a close or close_with_code on an open connection
LocalCloseCall == result.op \in {"close", "close_with_code"} /\ ~pre.closed

\* the call made one write, of a close frame, and it went as `how` says
CloseFrameWrite(how) ==
    /\ Len(events) = 1
    /\ events[1].ev = "write"
    /\ events[1].how = how
    /\ WireOpcode(events[1].bytes) = OPCODE_CLOSE

\* C29: a close or close_with_code on an open connection whose write_all or
\* flush fails returns the I/O error and leaves the connection open; the
\* call closes the connection only when its close frame was written and
\* flushed, and it returns success only then, so a close after a failed one
\* writes a close frame again.
C29_FailedCloseLeavesOpen ==
    LocalCloseCall =>
        /\ (CloseFrameWrite("write_err") \/ CloseFrameWrite("flush_err"))
              => ~result.ok /\ result.err = "Io" /\ ~closed /\ closed_by = "none"
        /\ closed => CloseFrameWrite("ok") /\ closed_by = "local"
        /\ result.ok => CloseFrameWrite("ok") /\ closed

\* a close frame was written whole and its flush failed; the connection
\* stayed open and this close wrote a second close frame, which closed it
C29_Witness ==
    /\ LocalCloseCall
    /\ close_frames.taken = 2
    /\ CloseFrameWrite("ok")
    /\ closed

-----------------------------------------------------------------------------
\* the call just returned wrote nothing
NothingWritten == \A i \in 1..Len(events) : events[i].ev # "write"

\* the call just returned wrote nothing once it had started to read
NothingWrittenAfterRead ==
    \A i, j \in 1..Len(events) :
        (events[i].ev = "read" /\ events[j].ev = "write") => j < i

\* the call just returned is the read_message that read the peer's close frame
PeerCloseRead ==
    /\ result.op = "read_message"
    /\ ~pre.closed
    /\ result.ok
    /\ result.msg.kind = "Close"

\* C27 (as stated; refuted): the transport is given at most one close frame
\* per connection, and nothing once the connection is closed.
C27_OneCloseFrameWritten ==
    /\ close_frames.taken <= 1
    /\ pre.closed => NothingWritten

\* C27 (amended): at most one close frame is written and flushed per
\* connection, and nothing is written once the connection is closed: no call
\* on a closed connection writes, the read_message that reads the peer's
\* close frame writes nothing after reading it (no echo, no pong), and the
\* close that succeeds ends with its close frame.  A close frame the
\* transport took before a failed flush is followed by the next close's.
C27_NothingAfterClose ==
    /\ close_frames.flushed <= 1
    /\ pre.closed => NothingWritten
    /\ PeerCloseRead => closed /\ NothingWrittenAfterRead /\ close_frames.flushed = 0
    /\ (LocalCloseCall /\ closed) => CloseFrameWrite("ok") /\ close_frames.flushed = 1
    /\ closed_by = "peer" => close_frames.flushed = 0

\* the keepalive ping was due and was written, then the peer's close frame
\* was read: nothing followed it
C27_Witness ==
    /\ PeerCloseRead
    /\ \E i \in 1..Len(events) : events[i].ev = "write" /\ events[i].how = "ok"
    /\ closed

\* a read_message on the connection a local close has closed
C27_WitnessLocal ==
    /\ result.op = "read_message"
    /\ pre.closed
    /\ closed_by = "local"
    /\ close_frames = [taken |-> 2, flushed |-> 1]

-----------------------------------------------------------------------------
\* event i of the call just returned is the write of a ping frame that went
\* as `how` says
PingWrite(i, how) ==
    /\ events[i].ev = "write"
    /\ events[i].how = how
    /\ WireOpcode(events[i].bytes) = OPCODE_PING

\* the call just returned is a read_message on an open connection that found
\* the keepalive interval elapsed
KeepaliveRead == result.op = "read_message" /\ ~pre.closed /\ WasDue

\* the keepalive interval has elapsed
StillDue == now - last_ping > config.ping_interval

\* C28: last_ping changes only in a send_ping or read_message that wrote and
\* flushed a ping frame, and then it is the time of that call; a
\* read_message that finds the interval elapsed writes the keepalive ping
\* first (when max_frame_size admits its 4 bytes), and when that write or
\* its flush fails last_ping is unchanged and the interval still elapsed; an
\* elapsed interval stays elapsed from step to step until a ping is written
\* and flushed, so every read_message until then makes the attempt again.
C28_LastPingOnSuccess ==
    /\ [](/\ (result.op \notin {"none", "connect"} /\ last_ping # pre.last_ping) =>
                /\ result.op \in {"send_ping", "read_message"}
                /\ \E i \in 1..Len(events) : PingWrite(i, "ok")
          /\ (\E i \in 1..Len(events) : PingWrite(i, "ok")) => last_ping = now
          /\ (KeepaliveRead /\ config.max_frame_size >= Len(KeepalivePayload)) =>
                /\ Len(events) >= 1
                /\ \E how \in WriteOutcomes : PingWrite(1, how)
                /\ WirePayload(events[1].bytes) = KeepalivePayload
                /\ ~PingWrite(1, "ok") => last_ping = pre.last_ping /\ StillDue)
    /\ [][(StillDue /\ session = "open"
              /\ ~(\E i \in 1..Len(events') : PingWrite(i, "ok")'))
            => StillDue']_vars

\* a read_message found the interval long elapsed, wrote the keepalive ping
\* and the flush failed: last_ping is where it was
C28_Witness ==
    /\ KeepaliveRead
    /\ now - pre.last_ping > config.ping_interval + 1
    /\ PingWrite(1, "flush_err")
    /\ last_ping = pre.last_ping

-----------------------------------------------------------------------------
\* the opcodes read_message has a message for
DeliveredOpcodes == { OPCODE_TEXT, OPCODE_BINARY, OPCODE_CLOSE, OPCODE_PING, OPCODE_PONG }

\* the message kind of each of them
KindOf(opcode) ==
    CASE opcode = OPCODE_TEXT   -> "Text"
      [] opcode = OPCODE_BINARY -> "Binary"
      [] opcode = OPCODE_CLOSE  -> "Close"
      [] opcode = OPCODE_PING   -> "Ping"
      [] OTHER                  -> "Pong"

\* every byte the peer sent of the frame was taken from the transport: the
\* payload in one read_exact of its whole length, nothing left behind
PayloadConsumed(f) ==
    /\ inbuf = <<>> /\ withheld = <<>>
    /\ Len(f.payload) > 0 =>
          \E i \in 1..Len(events) :
              /\ events[i].ev = "read"
              /\ events[i].n = Len(f.payload)
              /\ events[i].got = Len(f.payload)
              /\ \A j \in (i + 1)..Len(events) : events[j].ev # "read"

\* C30: a read_message that starts at a frame returns a message only when
\* the frame's opcode is 1, 2, 8, 9 or 10, and then the message of that
\* opcode; a frame with any other opcode whose header is accepted and whose
\* payload arrived in full is answered with a protocol error once the
\* payload is consumed; and a read_message that returns an error leaves the
\* connection open.
C30_UnknownOpcodeRejected ==
    /\ (ReadAtFrame /\ result.ok) =>
          /\ pre.frame.opcode \in DeliveredOpcodes
          /\ result.msg.kind = KindOf(pre.frame.opcode)
    /\ (ReadAtFrame /\ Decodable(pre.frame) /\ pre.frame.opcode \notin DeliveredOpcodes) =>
          /\ ~result.ok
          /\ result.err = "ProtocolError"
          /\ PayloadConsumed(pre.frame)
    /\ (result.op = "read_message" /\ ~pre.closed /\ ~result.ok) => ~closed

\* each kind of unknown opcode was met with a payload: a continuation
\* frame, a reserved data frame, a reserved control frame
UnknownOpcodeRead(opcode) ==
    /\ ReadAtFrame
    /\ Decodable(pre.frame)
    /\ pre.frame.opcode = opcode
    /\ pre.frame.fin
    /\ Len(pre.frame.payload) = 2
    /\ result.err = "ProtocolError"
    /\ ~closed

C30_Witness == UnknownOpcodeRead(11)

C30_WitnessContinuation == UnknownOpcodeRead(OPCODE_CONTINUATION)

C30_WitnessReserved == UnknownOpcodeRead(3)

-----------------------------------------------------------------------------
\* the call just returned is a read_message on an open connection
ReadReturned == result.op = "read_message" /\ ~pre.closed

\* C26 (as stated; refuted): when read_message returns, with a message or
\* with an error, no byte of the frame it read from is left on the transport
\* or still to arrive, so the next read starts at the first header byte of a
\* frame.
C26_AlignmentKept ==
    ReadReturned => inbuf = <<>> /\ withheld = <<>>

\* the bytes of a whole frame read_message rejected as too large stay on
\* the transport
C26_TooLargeLeavesPayload ==
    ~(/\ ReadAtFrame
      /\ Complete(pre.frame)
      /\ result.err = "FrameTooLarge"
      /\ inbuf = pre.frame.payload
      /\ inbuf # <<>>)

-----------------------------------------------------------------------------
\* connect_with_config has returned the client
Connected == result.op = "connect" /\ result.ok

\* C25 (as stated; refuted): when connect returns the client, every byte the
\* server sent behind the blank line of its response is still to be read, so
\* the first read_message starts at the first frame the server sent.
C25_NothingDiscarded ==
    Connected => inbuf = pre.call.early.sent

\* the whole first frame came with the blank line and is gone
C25_FirstFrameLost ==
    ~(/\ Connected
      /\ pre.call.early.sent = PeerBytes(EarlyFrame)
      /\ inbuf = <<>>)


-----------------------------------------------------------------------------
\* C21: a call of the high-resolution clock never returns less than a call
\* that returned before it, on whichever thread, while the monotonic clock
\* does not go back; and the value is the system time the calibration began
\* with plus the monotonic time since it ended, whatever the system clock
\* has done since.
C21_ReadingsNeverDecrease ==
    \A t \in Threads :
        threads[t].read # NoReading =>
            /\ threads[t].before <= threads[t].read
            /\ threads[t].read >= cell.value.start_time_ns
            /\ threads[t].read <= cell.value.start_time_ns + (now - cell.value.start_time)

\* two threads have read the clock, the second at a later time and after
\* the system clock was set back below the first reading
C21_Witness ==
    \E t, u \in Threads :
        /\ threads[t].read # NoReading
        /\ threads[u].before = threads[t].read
        /\ threads[u].read > threads[t].read
        /\ clock < threads[t].read

-----------------------------------------------------------------------------
\* the last call main made on the connection is a read_message that returned
\* a Close message, or an error
CloseReceived == result.op = "read_message" /\ result.ok /\ result.msg.kind = "Close"

ReadFailed == result.op = "read_message" /\ ~result.ok

\* C22: main connects once; the round of the loop in which read_message
\* returns a Close message or an error (no error read_message returns is
\* Timeout) is the last: main is past the loop with that read_message the
\* last call it made on the connection, and it stays there.  After any other
\* message the loop goes on, unless the arithmetic of the sample has
\* panicked.
C22_LoopEndsOnCloseOrError ==
    /\ [](/\ app.connects <= 1
          /\ (CloseReceived \/ ReadFailed) => app.pc = "ended" /\ result.err # "Timeout"
          /\ (result.op = "read_message" /\ result.ok /\ result.msg.kind # "Close"
                /\ ~panicked) => app.pc = "loop"
          /\ (result.op = "connect" /\ ~result.ok) => app.pc = "ended"
          /\ (result.op = "send_text" /\ ~result.ok) => app.pc = "ended")
    /\ [][app.pc = "ended" => UNCHANGED vars]_vars

\* the loop took a sample, then a read failed on a protocol error: main is
\* past the loop
C22_Witness ==
    /\ ReadFailed
    /\ result.err = "ProtocolError"
    /\ Len(samples) >= 1
    /\ app.pc = "ended"

\* the loop took a sample, then the exchange closed the connection
C22_WitnessClose ==
    /\ CloseReceived
    /\ closed
    /\ Len(samples) >= 1
    /\ app.pc = "ended"

-----------------------------------------------------------------------------
\* the last round of the loop met an order-book update with a timestamp
\* that parses as a u64
UpdateWithTimestamp == app.last.kind = "update" /\ app.last.ts \in {"small", "late", "huge"}

\* arrival time less the timestamp in nanoseconds, 0 when the timestamp is
\* later (as it is when it is late or huge)
ExpectedLatency ==
    IF app.last.ts = "small" /\ app.last.receive_time > app.last.ts_ms * NsPerMs
    THEN U64(app.last.receive_time - app.last.ts_ms * NsPerMs)
    ELSE U64(0)

\* add_measurement was called once in the last round, with x, and returned
SampledOnce(x) ==
    /\ ~panicked
    /\ stats.count = app.last.count_before + 1
    /\ Len(samples) = app.last.samples_before + 1
    /\ samples[Len(samples)] = x

\* add_measurement was not called in the last round
NotSampled ==
    /\ stats.count = app.last.count_before
    /\ Len(samples) = app.last.samples_before

\* C23 (as stated; refuted): a round of the loop that meets an order-book
\* update with a timestamp calls add_measurement once, with the arrival time
\* less the timestamp in nanoseconds, or 0 when the timestamp is the later;
\* a round that meets anything else takes no sample.
C23_OneSamplePerUpdate ==
    app.last.kind # "none" =>
        IF UpdateWithTimestamp THEN SampledOnce(ExpectedLatency) ELSE NotSampled

\* C23 for the timestamps whose nanoseconds fit a u64
C23_OneSamplePerUpdateInRange ==
    (app.last.kind # "none" /\ app.last.ts # "huge") =>
        IF UpdateWithTimestamp THEN SampledOnce(ExpectedLatency) ELSE NotSampled

C23_SampleTaken ==
    ~(/\ app.last.kind = "update" /\ app.last.ts = "small"
      /\ SampledOnce(U64(4000001)))

C23_SampleClamped ==
    ~(/\ app.last.kind = "update" /\ app.last.ts \in {"small", "late"}
      /\ app.last.samples_before = 1
      /\ SampledOnce(U64(0)))
=============================================================================
